---- MODULE Spec2Model ----
(***************************************************************************)
(* A model of the statistical core of checkout-flow-optimization:          *)
(*   src/src/analysis/stats_framework.py  (two_proportion_test,            *)
(*       guardrail_eval, _inverse_normal_cdf)                              *)
(*   src/src/analysis/sensitivity.py      (main, run_sensitivity_grid,     *)
(*       run_simulation, build_warehouse, run_ccr_test)                    *)
(*                                                                         *)
(* Python floats are IEEE-754 binary64 values and Python ints are          *)
(* unbounded; both are modelled exactly (Section 1) because several        *)
(* properties of the statistics hinge on rounding.                         *)
(***************************************************************************)
EXTENDS Integers, Sequences, FiniteSets, TLC

(***************************************************************************)
(* 1. NUMBERS                                                              *)
(*                                                                         *)
(* 1.1 Python int magnitudes: little-endian sequences of limbs in base     *)
(*     2^15 with no leading zero limb; <<>> is 0.                          *)
(***************************************************************************)
RECURSIVE Eval(_, _)

LimbBits == 15

LimbBase == 32768

Max(x, y) == IF x >= y THEN x ELSE y

Min(x, y) == IF x <= y THEN x ELSE y

Abs(x) == IF x < 0 THEN -x ELSE x

\* limb i of a, 0 outside a
Limb(a, i) == IF 1 <= i /\ i <= Len(a) THEN a[i] ELSE 0

\* a without its leading zero limbs
BigNorm(a) == Eval("BigNorm", <<a>>)

\* the number of bits of n, 0 <= n < 2^31
NatBitLen(n) == Cardinality({k \in 0..30 : 2 ^ k <= n})

BigBitLen(a) ==
    IF a = <<>> THEN 0 ELSE LimbBits * (Len(a) - 1) + NatBitLen(a[Len(a)])

BigOne == <<1>>

\* a natural n < 2^31 as limbs
BigOfNat(n) == Eval("BigOfNat", <<n>>)

\* a + b: the carry into limb i comes from the last limb below i whose sum
\* is not LimbBase - 1
BigAdd(a, b) == Eval("BigAdd", <<a, b>>)

\* a - b for a >= b: the borrow into limb i comes from the last limb below i
\* whose difference is not 0
BigSub(a, b) == Eval("BigSub", <<a, b>>)

\* -1, 0, 1 as a < b, a = b, a > b
BigCmp(a, b) == Eval("BigCmp", <<a, b>>)

\* a * k for 0 <= k < LimbBase
BigMulSmall(a, k) == Eval("BigMulSmall", <<a, k>>)

\* a * 2^n
BigShl(a, n) == Eval("BigShl", <<a, n>>)

\* floor(a / 2^n)
BigShr(a, n) == Eval("BigShr", <<a, n>>)

\* a * LimbBase^n
BigShlLimbs(a, n) == Eval("BigShlLimbs", <<a, n>>)

\* limb k of row[1] + row[2] * LimbBase + ... + row[j] * LimbBase^(j-1),
\* carries apart
ColSum(row, k, j) == Eval("ColSum", <<row, k, j>>)

\* a * b: the rows a * b[j] summed column by column, then the carries
BigMul(a, b) == Eval("BigMul", <<a, b>>)

\* bit i of a, bit 0 the lowest
BigBit(a, i) == Eval("BigBit", <<a, i>>)

\* a mod 2^n = 0
BigLowZero(a, n) == Eval("BigLowZero", <<a, n>>)

\* 10^k, four decimal digits at a time
BigPow10(k) == Eval("BigPow10", <<k>>)

\* the limb q with q * d <= r < (q + 1) * d, for r < d * LimbBase and d with
\* its top bit set: the quotient of the leading limbs is at most two above
BigDivDigit(r, d) == Eval("BigDivDigit", <<r, d>>)

\* one step of long division by d (top bit set): st = <<quotient, remainder>>
\* so far, limb i of a the next limb of the dividend; no step below limb 1
BigDivStep(st, a, i, d) == Eval("BigDivStep", <<st, a, i, d>>)

\* long division over the limbs i, i-1, ..., 1 of a, six steps at a time,
\* each step on the finished result of the step before
BigDivAt(a, d, i, st) == Eval("BigDivAt", <<a, d, i, st>>)

\* <<floor(a / d), a mod d>> for d # 0
BigDivMod(a, d) == Eval("BigDivMod", <<a, d>>)

\* one step of Newton's iteration for floor(sqrt(n)) down from x, x again
\* once it no longer decreases
BigSqrtStep(n, x) == Eval("BigSqrtStep", <<n, x>>)

\* the iteration from x >= floor(sqrt(n)), n > 0, to its fixed point, four
\* steps at a time
BigSqrtFrom(n, x) == Eval("BigSqrtFrom", <<n, x>>)

\* floor(sqrt(n)), starting just above the root of the leading limb
BigSqrt(n) == Eval("BigSqrt", <<n>>)

(***************************************************************************)
(* 1.2 Python float: IEEE-754 binary64, round-to-nearest-even.             *)
(*     A finite value is [neg, m, e] = (-1)^neg * m * 2^e in canonical     *)
(*     form: m = 0 and e = 0, or 2^52 <= m < 2^53 (normal), or m < 2^52    *)
(*     and e = -1074 (subnormal).  The largest finite exponent is never    *)
(*     approached by the operations below; +inf appears only as the        *)
(*     stored constant float("inf").                                       *)
(***************************************************************************)
MantBits == 53

ExpMin == -1074

FZero(neg) == [neg |-> neg, m |-> <<>>, e |-> 0]

FInf == [neg |-> FALSE, m |-> <<>>, e |-> 1]

FIsZero(x) == x.m = <<>> /\ x.e = 0

\* the binary64 nearest to (-1)^neg * (N + s) * 2^e, where 0 < s < 1 when
\* sticky and s = 0 otherwise (sticky only with N of 55 bits or more)
FRound(neg, N, e, sticky) == Eval("FRound", <<neg, N, e, sticky>>)

FNeg(x) == [x EXCEPT !.neg = ~x.neg]

FAbs(x) == [x EXCEPT !.neg = FALSE]

\* -1, 0, 1 comparing magnitudes of canonical values
FCmpMag(x, y) == Eval("FCmpMag", <<x, y>>)

\* -1, 0, 1 as x < y, x == y, x > y
FCmp(x, y) == Eval("FCmp", <<x, y>>)

FLt(x, y) == FCmp(x, y) < 0

FLe(x, y) == FCmp(x, y) <= 0

FEq(x, y) == FCmp(x, y) = 0

AlignGap == 64

\* x + y
FAdd(x, y) == Eval("FAdd", <<x, y>>)

\* x - y
FSub(x, y) == Eval("FSub", <<x, y>>)

\* x * y
FMul(x, y) == Eval("FMul", <<x, y>>)

QuotBits == 56

\* the binary64 nearest to (-1)^neg * (n / d) * 2^e for naturals n, d > 0
FQuot(neg, n, d, e) == Eval("FQuot", <<neg, n, d, e>>)

\* x / y for y # 0
FDiv(x, y) == FQuot(x.neg # y.neg, x.m, y.m, x.e - y.e)

SqrtBits == 110

\* math.sqrt(x) for x >= 0
FSqrt(x) == Eval("FSqrt", <<x>>)

\* float(n) for a Python int n held as a TLA+ integer
FInt(n) == Eval("FInt", <<n>>)

\* the float literal with digits n and k decimals: n / 10^k correctly rounded
FDec(n, k) == Eval("FDec", <<n, k>>)

\* the float literal with the 18 digits a b c (six each) and k decimals
FDec3(a, b, c, k) == Eval("FDec3", <<a, b, c, k>>)

\* sys.float_info.min * sys.float_info.epsilon, the literal 5e-324
FMinSubnormal == [neg |-> FALSE, m |-> BigOne, e |-> ExpMin]

(***************************************************************************)
(* 1.3 Python int values, sign and magnitude.                              *)
(***************************************************************************)
IntOf(n) == Eval("IntOf", <<n>>)

IntPow2(k) == Eval("IntPow2", <<k>>)

ISign(i) == IF i.mag = <<>> THEN 0 ELSE IF i.neg THEN -1 ELSE 1

\* -1, 0, 1 as a < b, a == b, a > b
ICmp(a, b) == Eval("ICmp", <<a, b>>)

\* a + b
IAdd(a, b) == Eval("IAdd", <<a, b>>)

\* a / b, int by int: the quotient correctly rounded (b # 0)
ITrueDiv(a, b) == Eval("ITrueDiv", <<a, b>>)

\* float(a)
FOfInt(a) == Eval("FOfInt", <<a>>)

\* float(a) raises OverflowError: a rounds to 2^1024 or beyond
MaxExp == 1024

IntTooLarge(a) == Eval("IntTooLarge", <<a>>)

(***************************************************************************)
(* 1.4 The math module.  math.sqrt is correctly rounded (FSqrt).           *)
(*     math.erf is the C library's erf (fdlibm s_erf.c): below 2^-28 it    *)
(*     returns x + efx*x (0.125*(8x + efx8*x) below 2^-1015), from 6 on    *)
(*     it returns 1; in between, where the                                 *)
(*     library evaluates rational approximations and exp(), the model      *)
(*     takes the correctly rounded erf of the largest multiple of 1/4 not  *)
(*     above x (of 2^-28 below 1/4): monotone, odd, and never above the    *)
(*     library's value by more than a step.  math.log is modelled by       *)
(*     ln(f * 2^k) = k ln 2 + 2 atanh((f-1)/(f+1)) summed in binary64.     *)
(***************************************************************************)
ErfTiny == [neg |-> FALSE, m |-> BigShl(BigOne, 52), e |-> -80]

ErfSub == [neg |-> FALSE, m |-> BigShl(BigOne, 52), e |-> -1067]

Efx == FDec3(128379, 167095, 512586, 18)

Efx8 == FDec3(1027033, 336764, 100690, 18)

ErfOne == 6

\* math.erf(i / 4) for i in 1..23, correctly rounded
ErfKnot(i) == Eval("ErfKnot", <<i>>)

\* erf at the largest multiple of 1/4 not above x, for 2^-28 <= x < 6:
\* that multiple is floor(4 * x) / 4
ErfStep(x) == Eval("ErfStep", <<x>>)

\* math.erf(x)
erf(x) == Eval("erf", <<x>>)

Ln2 == FDec3(693147, 180559, 945300, 18)

\* 1/(2j+1) + u/(2j+3), ..., the terms of atanh(t)/t in u = t^2
AtanhTerm(j, u, rest) == Eval("AtanhTerm", <<j, u, rest>>)

\* atanh(t) for |t| <= 1/5: eleven terms, the innermost first
Atanh(t) == Eval("Atanh", <<t>>)

\* math.log(x) for x > 0, with x = f * 2^k and 3/4 <= f < 3/2
log(x) == Eval("log", <<x>>)

(***************************************************************************)
(* 2. stats_framework.py, and the programs that are run on their own.      *)
(*    A raised exception is the record [exc, msg].                         *)
(***************************************************************************)
Raise(type, msg) == [exc |-> type, msg |-> msg]

Raised(v) == "exc" \in DOMAIN v

\* _inverse_normal_cdf(p): the z-score with Phi(z) = p, or ValueError
_inverse_normal_cdf(p) == Eval("_inverse_normal_cdf", <<p>>)

\* the critical value of lines 83, 143, 212
z_crit(alpha) == Eval("z_crit", <<alpha>>)

\* a variant of unpooled_se: the variance of arm A taken for both arms
unpooled_se_first_arm(var_a, var_b) ==
    Eval("unpooled_se_first_arm", <<var_a, var_b>>)

\* line 83
unpooled_se(var_a, var_b) == Eval("unpooled_se", <<var_a, var_b>>)

\* two_proportion_test(successes_a, total_a, successes_b, total_b, alpha):
\* ints and a float in, a TestResult or a raised ValueError out
two_proportion_test(successes_a, total_a, successes_b, total_b, alpha) ==
    Eval("two_proportion_test", <<successes_a, total_a, successes_b, total_b, alpha>>)

(***************************************************************************)
(* 2.1 guardrail_eval.  A str is the tuple of its characters; a dict is    *)
(*     the sequence of its (key, value) items in insertion order; None is  *)
(*     the record PyNone; the returned message is the tuple of the parts   *)
(*     of the f-string, a formatted float being [neg, digits, places].     *)
(*     rule_type, a str or None, is held as its str().                     *)
(***************************************************************************)
PyNone == [none |-> TRUE]

IsNone(v) == "none" \in DOMAIN v

\* str.startswith
StartsWith(s, prefix) ==
    Len(s) >= Len(prefix) /\ SubSeq(s, 1, Len(prefix)) = prefix

\* format(x, ".<places>f"): |x| * 10^places rounded half to even, sign kept
FFormat(x, places) == Eval("FFormat", <<x, places>>)

\* the key prefixes of lines 264-276 in the order of the elif chain, each
\* with the rule_type it selects
RuleKinds ==
    << <<<<"m", "a", "x", "_", "d", "r", "o", "p", "_", "p", "p">>, "drop_pp">>,
       <<<<"m", "a", "x", "_", "d", "r", "o", "p", "_", "p", "c", "t">>, "drop_pct">>,
       <<<<"m", "a", "x", "_", "i", "n", "c", "r", "e", "a", "s", "e", "_", "p", "p">>, "increase_pp">>,
       <<<<"m", "a", "x", "_", "i", "n", "c", "r", "e", "a", "s", "e", "_", "m", "s">>, "increase_ms">>,
       <<<<"m", "a", "x", "_", "i", "n", "c", "r", "e", "a", "s", "e", "_", "p", "c", "t">>, "increase_pct">> >>

\* the rule_type one key selects in the loop body, "None" when no branch
\* of the elif chain matches it
KeyRuleType(key) == Eval("KeyRuleType", <<key>>)

\* two variants of RuleScan: the first matching item wins; a rule without
\* a matching item is read as max_drop_pp: 0
RuleScan_first_match(items) == Eval("RuleScan_first_match", <<items>>)

RuleScan_default_kind(items) == Eval("RuleScan_default_kind", <<items>>)

\* rule_type and threshold after the loop over rule.items(): those of the
\* last item one of the branches matched
RuleScan(items) == Eval("RuleScan", <<items>>)

\* the delta of lines 286, 298, 308, 318, 330
GuardrailDelta(rule_type, baseline_value, treatment_value) ==
    Eval("GuardrailDelta", <<rule_type, baseline_value, treatment_value>>)

\* a variant of PercentOfZero: the guard applied to every rule_type
PercentOfZero_any_kind(rule_type, baseline_value) ==
    Eval("PercentOfZero_any_kind", <<rule_type, baseline_value>>)

\* lines 296 and 328: baseline_value == 0 in the two relative branches, and
\* what lines 297 and 329 return
PercentOfZero(rule_type, baseline_value) ==
    Eval("PercentOfZero", <<rule_type, baseline_value>>)

ZeroBaselineMessage(rule_type) == Eval("ZeroBaselineMessage", <<rule_type>>)

\* the f-string of the rule_type: its words, the places of its numbers
GuardrailWords(rule_type) ==
    IF rule_type = "drop_pp"
    THEN [verb |-> "Drop of ", places |-> 3, unit |-> "pp", vunit |-> ""]
    ELSE IF rule_type = "drop_pct"
    THEN [verb |-> "Drop of ", places |-> 2, unit |-> "%", vunit |-> ""]
    ELSE IF rule_type = "increase_pp"
    THEN [verb |-> "Increase of ", places |-> 3, unit |-> "pp", vunit |-> ""]
    ELSE IF rule_type = "increase_ms"
    THEN [verb |-> "Increase of ", places |-> 1, unit |-> "ms", vunit |-> "ms"]
    ELSE [verb |-> "Increase of ", places |-> 2, unit |-> "%", vunit |-> ""]

\* a variant of GuardrailMessage: the tag is always PASS
GuardrailMessage_always_pass(rule_type, delta, baseline_value, treatment_value, threshold, passed) ==
    Eval("GuardrailMessage_always_pass", <<rule_type, delta, baseline_value, treatment_value, threshold, passed>>)

GuardrailMessage(rule_type, delta, baseline_value, treatment_value, threshold, passed) ==
    Eval("GuardrailMessage", <<rule_type, delta, baseline_value, treatment_value, threshold, passed>>)

\* guardrail_eval(baseline_value, treatment_value, rule): the pair
\* (passed, message) as the record [passed, message], or ValueError.
\* rule is [type, items]: type(rule).__name__ and its items.
guardrail_eval(baseline_value, treatment_value, rule) ==
    Eval("guardrail_eval", <<baseline_value, treatment_value, rule>>)

(***************************************************************************)
(* 2.2 proportion_ci and mean_ci.  The statistics module works on exact    *)
(*     fractions: mean is the exact mean correctly rounded, stdev the      *)
(*     square root of the exact sample variance correctly rounded.  The    *)
(*     values are finite floats x[i] = X[i] * 2^emin with X[i] an int.     *)
(***************************************************************************)
\* max(0, x) and min(1, x) as Python evaluates them: the first argument
\* unless the second is strictly beyond it
PyMax0(x) == Eval("PyMax0", <<x>>)

PyMin1(x) == Eval("PyMin1", <<x>>)

\* lines 146-147: (ci_low, ci_high)
proportion_bounds(rate, margin) == Eval("proportion_bounds", <<rate, margin>>)

\* proportion_ci(successes, total, alpha), lines 126-153
proportion_ci(successes, total, alpha) ==
    Eval("proportion_ci", <<successes, total, alpha>>)

\* the least exponent of the values, and value i as an int at that scale
StatScale(xs) == Eval("StatScale", <<xs>>)

StatInt(x, emin) == Eval("StatInt", <<x, emin>>)

\* the sum of the ints X[1..i], and the sum of their squares
StatSum(xs, emin, i) == Eval("StatSum", <<xs, emin, i>>)

StatSumSq(xs, emin, i) == Eval("StatSumSq", <<xs, emin, i>>)

\* statistics.mean(values) of floats: float(Fraction(sum) / n)
StatMean(xs) == Eval("StatMean", <<xs>>)

\* statistics.stdev(values) of two floats or more:
\* _float_sqrt_of_frac of ss / (n - 1), ss = (n * sxx - sx * sx) / n
StatStdev(xs) == Eval("StatStdev", <<xs>>)

\* lines 215-216: (ci_low, ci_high)
mean_bounds(mean, margin) == Eval("mean_bounds", <<mean, margin>>)

\* mean_ci(values, alpha), lines 186-222.  values is [type, items], the
\* items floats or PyNone for an item float() rejects; branch names the
\* return statement taken.
mean_ci(values, alpha) == Eval("mean_ci", <<values, alpha>>)

(***************************************************************************)
(* 2.3 src/data/simulate.py, the generator a trial launches.  Three        *)
(*     things stand for what the model does not compute: the Mersenne      *)
(*     Twister of random.Random(seed) is rng_random, a fixed function of   *)
(*     the seed and of the number of draws made so far, in thousandths;    *)
(*     the md5 parity of assign_variant is a fixed parity of the user id;  *)
(*     times of day are whole microhours.  What the process draws from     *)
(*     outside its arguments is its environment env: the entropy behind    *)
(*     uuid4() and the string hash seed that orders a set of str.          *)
(***************************************************************************)
\* a decimal literal n / 10^k as it is written in a command line, a YAML
\* file or a source text, and the float it is read as; None stays None
Lit(n, k) == [n |-> n, k |-> k]

FloatOf(lit) == IF IsNone(lit) THEN PyNone ELSE FDec(lit.n, lit.k)

\* datetime: a date is [y, m, d]; strftime("%Y-%m-%d") of a date with a
\* four-digit year names the same three numbers
IsLeap(y) == y % 4 = 0 /\ (y % 100 # 0 \/ y % 400 = 0)

DaysInMonth(y, m) ==
    IF m = 2 THEN (IF IsLeap(y) THEN 29 ELSE 28)
    ELSE IF m \in {4, 6, 9, 11} THEN 30 ELSE 31

NextDay(date) ==
    IF date.d < DaysInMonth(date.y, date.m) THEN [date EXCEPT !.d = date.d + 1]
    ELSE IF date.m < 12 THEN [date EXCEPT !.m = date.m + 1, !.d = 1]
    ELSE [y |-> date.y + 1, m |-> 1, d |-> 1]

\* date + timedelta(days = n), n >= 0
AddDays(date, n) == Eval("AddDays", <<date, n>>)

\* src/data/simulate.py, line 352: user_id = f"user_{date_str}_{i:06d}"
user_id(date, i) == <<"user", date, i>>

\* simulate.py, main (lines 466-467) and simulate_day (lines 348-352): the
\* user ids of one invocation, one per day simulated and user index
simulated_user_ids(start, days, users) ==
    Eval("simulated_user_ids", <<start, days, users>>)

\* the k-th value of random.Random(seed).random(), in thousandths
rng_random(seed, k) == ((seed + 1) * 611 + k * 389 + k * k * 7) % 1000

\* uuid4(): the k-th uuid of the process, drawn from os.urandom
uuid4(env, k) == <<"uuid", env.entropy, k>>

\* list(s) of a set of str, lines 203 and 242: the iteration order depends
\* on the hash seed of the process
list_of_set(env, s) ==
    IF s = "VALID_ERROR_CODES"
    THEN (IF env.hash_seed = 0 THEN <<"invalid", "declined", "timeout">>
          ELSE <<"timeout", "invalid", "declined">>)
    ELSE (IF env.hash_seed = 0 THEN <<"card", "paypal">> ELSE <<"paypal", "card">>)

\* lines 49-62: the parity of the md5 digest of the user id
assign_variant(uid) ==
    IF (uid[2].d + uid[3]) % 2 = 0 THEN "treatment" ELSE "control"

\* simulate_user_funnel, lines 183-238: the checkout steps from step k on.
\* st is [n, hour, views, errors, abandoned]: the draws made, the hour
\* offset, the events so far; ctx holds what the loop reads.
FunnelSteps(k, st, ctx) == Eval("FunnelSteps", <<k, st, ctx>>)

\* simulate_user_funnel, lines 98-283: the six event lists of one user in
\* the order of line 363, with the draws n and the uuids u used so far
simulate_user_funnel(uid, session_id, variant, base_date, uplift, seed, env, n, u) ==
    Eval("simulate_user_funnel", <<uid, session_id, variant, base_date, uplift, seed, env, n, u>>)

\* simulate_day, lines 348-371: the users from index i on; day is
\* [events, n, u], the six lists of the day and the draws and uuids used
simulate_users(i, date, num_users, uplift, seed, env, day) ==
    Eval("simulate_users", <<i, date, num_users, uplift, seed, env, day>>)

\* main, lines 458-472, with simulate_day and write_parquet_partition
\* (lines 298-310, 374-375): the files written for the days from
\* day_offset on, each with its path and its rows; run is [files, n, u]
simulate(day_offset, start, days, users, uplift, seed, output, env, run) ==
    Eval("simulate", <<day_offset, start, days, users, uplift, seed, output, env, run>>)

\* main, lines 391-510: argv is <<start, days, users, uplift, seed, output>>
\* with the uplift as its decimal literal; the dataset written
simulate_main(argv, env) == Eval("simulate_main", <<argv, env>>)

(***************************************************************************)
(* 2.4 src/analysis/run_stats.py and the decision of src/report.py.  A     *)
(*     dict is a function from its keys; what is printed is reduced to     *)
(*     the RECOMMENDATION line, "" when none was printed.                  *)
(***************************************************************************)
\* lines 29-51: load_experiment_config.  text is the experiment mapping of
\* configs/experiment.yml with its numbers as decimal literals, or PyNone
\* when there is no file; yaml.safe_load reads each literal as a float
load_experiment_config(text) == Eval("load_experiment_config", <<text>>)

\* metrics_runner, as lines 267-274 call it: the rows fetched from the
\* warehouse, counts as int and mean order values as float or None, or the
\* exception raised
warehouse_rows(rows) == Eval("warehouse_rows", <<rows>>)

\* the truth value of config: None and {} are false
PyTruthy(config) == ~IsNone(config) /\ DOMAIN config # {}

\* run_stats.py, lines 64-120: print_ccr_analysis returns the test result
print_ccr_analysis(variant_counts, alpha) ==
    Eval("print_ccr_analysis", <<variant_counts, alpha>>)

\* lines 166-181 and 197-212: one guardrail against the threshold that
\* config may hold under threshold_key; no threshold counts as passed
evaluate_guardrail(config, threshold_key, rule_key, baseline_value, treatment_value) ==
    Eval("evaluate_guardrail", <<config, threshold_key, rule_key, baseline_value, treatment_value>>)

\* all_passed of run_stats taken from the last guardrail alone
all_passed_last(auth, aov) == aov.passed

\* lines 138, 176-177, 207-208: all_passed after the two guardrails
all_passed(auth, aov) == auth.passed /\ aov.passed

\* lines 123-215: print_guardrails_analysis returns all_passed, or raises
print_guardrails_analysis(guardrails, config) ==
    Eval("print_guardrails_analysis", <<guardrails, config>>)

\* lines 218-244: the RECOMMENDATION line print_decision prints
print_decision(is_significant, guardrails_passed, mde) ==
    IF is_significant /\ guardrails_passed THEN "SHIP"
    ELSE IF ~is_significant THEN "DO NOT SHIP"
    ELSE "DO NOT SHIP"

\* lines 289-292
exit_status(is_significant, guardrails_passed) ==
    IF is_significant /\ guardrails_passed THEN 0 ELSE 1

\* lines 247-299: main.  text is what configs/experiment.yml holds and rows
\* what most_recent_date, get_variant_counts_for_ccr and get_guardrails
\* fetch, or what they raise
run_stats(text, rows) == Eval("run_stats", <<text, rows>>)

\* save_results.py, lines 149-198: compute_ccr_summary, with alpha fixed
compute_ccr_summary(variant_counts) ==
    Eval("compute_ccr_summary", <<variant_counts>>)

\* report.py, lines 146-182: the decision of the executive summary
decision(ccr_summary) == Eval("decision", <<ccr_summary>>)

\* save_results.py, lines 322-395, then report.py: the summary saved from
\* the rows fetched and the decision of the report, or the exception that
\* ends save_results
report(rows) == Eval("report", <<rows>>)

(***************************************************************************)
(* The operators declared above, evaluated.  Each arm is the body of the   *)
(* operator it names, with the operands bound to its parameter names.      *)
(* One recursive operator holds the bodies because TLC, when it gathers    *)
(* coverage statistics, unfolds an operator's definition at every place    *)
(* the operator is used and stops only at a recursive call: with the       *)
(* bodies gathered here that unfolding is linear in their size.            *)
(***************************************************************************)
Eval(op_, av_) ==
    \* BigNorm(a)
    CASE op_ = "BigNorm" ->
          LET a == av_[1]
          IN  (
              LET s == SubSeq(a, 1, Len(a))
                  n == CHOOSE k \in 0..Len(s) :
                           /\ k = 0 \/ s[k] # 0
                           /\ \A j \in (k + 1)..Len(s) : s[j] = 0
              IN  IF s = <<>> \/ s[Len(s)] # 0 THEN s ELSE SubSeq(s, 1, n)
          )
    \* BigOfNat(n)
      [] op_ = "BigOfNat" ->
          LET n == av_[1]
          IN  (
              BigNorm(<<n % LimbBase, (n \div LimbBase) % LimbBase,
                        n \div (LimbBase * LimbBase)>>)
          )
    \* BigAdd(a, b)
      [] op_ = "BigAdd" ->
          LET a == av_[1]
              b == av_[2]
          IN  (
              IF a = <<>> THEN b
              ELSE IF b = <<>> THEN a
              ELSE
              LET n == Max(Len(a), Len(b)) + 1
                  g == SubSeq([i \in 1..n |-> Limb(a, i) + Limb(b, i)], 1, n)
                  far(i) == \E j \in 1..(i - 2) :
                               /\ g[j] >= LimbBase
                               /\ \A k \in (j + 1)..(i - 1) : g[k] = LimbBase - 1
                  carry(i) == IF i = 1 THEN 0
                              ELSE IF g[i - 1] # LimbBase - 1
                              THEN (IF g[i - 1] >= LimbBase THEN 1 ELSE 0)
                              ELSE (IF far(i) THEN 1 ELSE 0)
              IN  BigNorm([i \in 1..n |-> (g[i] + carry(i)) % LimbBase])
          )
    \* BigSub(a, b)
      [] op_ = "BigSub" ->
          LET a == av_[1]
              b == av_[2]
          IN  (
              IF b = <<>> THEN a
              ELSE
              LET h == SubSeq([i \in 1..Len(a) |-> a[i] - Limb(b, i)], 1, Len(a))
                  far(i) == \E j \in 1..(i - 2) :
                               /\ h[j] < 0
                               /\ \A k \in (j + 1)..(i - 1) : h[k] = 0
                  borrow(i) == IF i = 1 THEN 0
                               ELSE IF h[i - 1] # 0
                               THEN (IF h[i - 1] < 0 THEN 1 ELSE 0)
                               ELSE (IF far(i) THEN 1 ELSE 0)
              IN  BigNorm([i \in 1..Len(a) |->
                              (h[i] - borrow(i) + LimbBase) % LimbBase])
          )
    \* BigCmp(a, b)
      [] op_ = "BigCmp" ->
          LET a == av_[1]
              b == av_[2]
          IN  (
              IF Len(a) # Len(b) THEN (IF Len(a) < Len(b) THEN -1 ELSE 1)
              ELSE IF a = b THEN 0
              ELSE LET top == CHOOSE i \in 1..Len(a) :
                                  /\ a[i] # b[i]
                                  /\ \A j \in (i + 1)..Len(a) : a[j] = b[j]
                   IN  IF a[top] < b[top] THEN -1 ELSE 1
          )
    \* BigMulSmall(a, k)
      [] op_ = "BigMulSmall" ->
          LET a == av_[1]
              k == av_[2]
          IN  (
              IF a = <<>> \/ k = 0 THEN <<>>
              ELSE BigAdd(BigNorm([i \in 1..Len(a) |-> (a[i] * k) % LimbBase]),
                          BigNorm([i \in 1..(Len(a) + 1) |->
                                      (Limb(a, i - 1) * k) \div LimbBase]))
          )
    \* BigShl(a, n)
      [] op_ = "BigShl" ->
          LET a == av_[1]
              n == av_[2]
          IN  (
              IF a = <<>> \/ n = 0 THEN a
              ELSE
              LET w == n \div LimbBits
                  s == n % LimbBits
              IN  BigNorm([i \in 1..(Len(a) + w + 1) |->
                              ((Limb(a, i - w) * 2 ^ s) % LimbBase)
                              + (Limb(a, i - w - 1) \div 2 ^ (LimbBits - s))])
          )
    \* BigShr(a, n)
      [] op_ = "BigShr" ->
          LET a == av_[1]
              n == av_[2]
          IN  (
              IF a = <<>> \/ n = 0 THEN a
              ELSE
              LET w == n \div LimbBits
                  s == n % LimbBits
              IN  BigNorm([i \in 1..Max(Len(a) - w, 0) |->
                              (Limb(a, i + w) \div 2 ^ s)
                              + ((Limb(a, i + w + 1) % 2 ^ s) * 2 ^ (LimbBits - s))])
          )
    \* BigShlLimbs(a, n)
      [] op_ = "BigShlLimbs" ->
          LET a == av_[1]
              n == av_[2]
          IN  (
              BigShl(a, n * LimbBits)
          )
    \* ColSum(row, k, j)
      [] op_ = "ColSum" ->
          LET row == av_[1]
              k == av_[2]
              j == av_[3]
          IN  (
              IF j = 0 THEN 0 ELSE Limb(row[j], k - j + 1) + ColSum(row, k, j - 1)
          )
    \* BigMul(a, b)
      [] op_ = "BigMul" ->
          LET a == av_[1]
              b == av_[2]
          IN  (
              IF a = <<>> \/ b = <<>> THEN <<>>
              ELSE LET m   == Len(b)
                       n   == Len(a) + m
                       row == SubSeq([j \in 1..m |-> BigMulSmall(a, b[j])], 1, m)
                       col == SubSeq([k \in 1..n |-> ColSum(row, k, m)], 1, n)
                   IN  BigAdd(BigNorm([k \in 1..n |-> col[k] % LimbBase]),
                              BigNorm([k \in 1..(n + 1) |->
                                          Limb(col, k - 1) \div LimbBase]))
          )
    \* BigBit(a, i)
      [] op_ = "BigBit" ->
          LET a == av_[1]
              i == av_[2]
          IN  (
              (Limb(a, (i \div LimbBits) + 1) \div (2 ^ (i % LimbBits))) % 2
          )
    \* BigLowZero(a, n)
      [] op_ = "BigLowZero" ->
          LET a == av_[1]
              n == av_[2]
          IN  (
              /\ \A i \in 1..Min(Len(a), n \div LimbBits) : a[i] = 0
              /\ Limb(a, (n \div LimbBits) + 1) % (2 ^ (n % LimbBits)) = 0
          )
    \* BigPow10(k)
      [] op_ = "BigPow10" ->
          LET k == av_[1]
          IN  (
              IF k <= 4 THEN BigOfNat(10 ^ k)
              ELSE BigMulSmall(BigPow10(k - 4), 10000)
          )
    \* BigDivDigit(r, d)
      [] op_ = "BigDivDigit" ->
          LET r == av_[1]
              d == av_[2]
          IN  (
              LET n  == Len(d)
                  g0 == Min(LimbBase - 1,
                            (Limb(r, n + 1) * LimbBase + Limb(r, n)) \div d[n])
                  g1 == Max(g0 - 1, 0)
                  g2 == Max(g0 - 2, 0)
              IN  IF g0 = 0 THEN 0
                  ELSE IF BigCmp(BigMulSmall(d, g0), r) <= 0 THEN g0
                  ELSE IF BigCmp(BigMulSmall(d, g1), r) <= 0 THEN g1
                  ELSE g2
          )
    \* BigDivStep(st, a, i, d)
      [] op_ = "BigDivStep" ->
          LET st == av_[1]
              a == av_[2]
              i == av_[3]
              d == av_[4]
          IN  (
              IF i < 1 THEN st
              ELSE IF st[2] = <<>> /\ a[i] = 0 THEN <<BigNorm(<<0>> \o st[1]), <<>>>>
              ELSE LET r == <<a[i]>> \o st[2]
                       g == BigDivDigit(r, d)
                   IN  IF g = 0 THEN <<BigNorm(<<0>> \o st[1]), r>>
                       ELSE <<<<g>> \o st[1], BigSub(r, BigMulSmall(d, g))>>
          )
    \* BigDivAt(a, d, i, st)
      [] op_ = "BigDivAt" ->
          LET a == av_[1]
              d == av_[2]
              i == av_[3]
              st == av_[4]
          IN  (
              LET s1 == BigDivStep(st, a, i, d)
                  s2 == BigDivStep(s1, a, i - 1, d)
                  s3 == BigDivStep(s2, a, i - 2, d)
                  s4 == BigDivStep(s3, a, i - 3, d)
                  s5 == BigDivStep(s4, a, i - 4, d)
                  s6 == BigDivStep(s5, a, i - 5, d)
                  run == <<s1, s2, s3, s4, s5, s6>>
              IN  IF i <= 6 THEN run[6] ELSE BigDivAt(a, d, i - 6, run[6])
          )
    \* BigDivMod(a, d)
      [] op_ = "BigDivMod" ->
          LET a == av_[1]
              d == av_[2]
          IN  (
              IF BigCmp(a, d) < 0 THEN <<<<>>, a>>
              ELSE
              LET s   == LimbBits - NatBitLen(d[Len(d)])
                  a1  == BigShl(a, s)
                  d1  == BigShl(d, s)
                  top == Len(a1) - Min(Len(d1) - 1, Len(a1))
                  qr  == BigDivAt(a1, d1, top, <<<<>>, SubSeq(a1, top + 1, Len(a1))>>)
              IN  <<qr[1], BigShr(qr[2], s)>>
          )
    \* BigSqrtStep(n, x)
      [] op_ = "BigSqrtStep" ->
          LET n == av_[1]
              x == av_[2]
          IN  (
              LET q   == BigDivMod(n, x)[1]
                  sum == BigAdd(x, q)
                  run == <<q, sum, BigShr(sum, 1)>>
              IN  IF BigCmp(run[3], x) >= 0 THEN x ELSE run[3]
          )
    \* BigSqrtFrom(n, x)
      [] op_ = "BigSqrtFrom" ->
          LET n == av_[1]
              x == av_[2]
          IN  (
              LET x1 == BigSqrtStep(n, x)
                  x2 == IF x1 = x THEN x ELSE BigSqrtStep(n, x1)
                  x3 == IF x2 = x1 THEN x1 ELSE BigSqrtStep(n, x2)
                  x4 == IF x3 = x2 THEN x2 ELSE BigSqrtStep(n, x3)
                  run == <<x1, x2, x3, x4>>
              IN  IF run[4] = run[3] THEN run[4] ELSE BigSqrtFrom(n, run[4])
          )
    \* BigSqrt(n)
      [] op_ = "BigSqrt" ->
          LET n == av_[1]
          IN  (
              IF n = <<>> THEN n
              ELSE LET sh  == 2 * (Max(0, BigBitLen(n) - LimbBits + 1) \div 2)
                       top == BigShr(n, sh)[1]
                       r   == Cardinality({k \in 1..(LimbBase \div 181) : k * k <= top})
                   IN  BigSqrtFrom(n, BigShl(BigOfNat(r + 1), sh \div 2))
          )
    \* FRound(neg, N, e, sticky)
      [] op_ = "FRound" ->
          LET neg == av_[1]
              N == av_[2]
              e == av_[3]
              sticky == av_[4]
          IN  (
              IF N = <<>> THEN FZero(neg)
              ELSE
              LET bl   == BigBitLen(N)
                  drop == Max(bl - MantBits, ExpMin - e)
              IN  IF drop <= 0
                  THEN LET sh == Min(MantBits - bl, e - ExpMin)
                       IN  [neg |-> neg, m |-> BigShl(N, sh), e |-> e - sh]
                  ELSE LET q    == BigShr(N, drop)
                           half == BigBit(N, drop - 1) = 1
                           tie  == BigLowZero(N, drop - 1) /\ ~sticky
                           up   == half /\ (~tie \/ BigBit(q, 0) = 1)
                           q2   == IF up THEN BigAdd(q, BigOne) ELSE q
                       IN  IF q2 = <<>> THEN FZero(neg)
                           ELSE IF BigBitLen(q2) > MantBits
                           THEN [neg |-> neg, m |-> BigShr(q2, 1), e |-> e + drop + 1]
                           ELSE [neg |-> neg, m |-> q2, e |-> e + drop]
          )
    \* FCmpMag(x, y)
      [] op_ = "FCmpMag" ->
          LET x == av_[1]
              y == av_[2]
          IN  (
              IF x.m = <<>> \/ y.m = <<>>
              THEN (IF x.m = y.m THEN 0 ELSE IF x.m = <<>> THEN -1 ELSE 1)
              ELSE IF x.e # y.e THEN (IF x.e < y.e THEN -1 ELSE 1)
              ELSE BigCmp(x.m, y.m)
          )
    \* FCmp(x, y)
      [] op_ = "FCmp" ->
          LET x == av_[1]
              y == av_[2]
          IN  (
              IF x.m = <<>> /\ y.m = <<>> THEN 0
              ELSE IF x.m = <<>> THEN (IF y.neg THEN 1 ELSE -1)
              ELSE IF y.m = <<>> THEN (IF x.neg THEN -1 ELSE 1)
              ELSE IF x.neg # y.neg THEN (IF x.neg THEN -1 ELSE 1)
              ELSE IF x.neg THEN -FCmpMag(x, y) ELSE FCmpMag(x, y)
          )
    \* FAdd(x, y)
      [] op_ = "FAdd" ->
          LET x == av_[1]
              y == av_[2]
          IN  (
              IF x.m = <<>> /\ y.m = <<>> THEN FZero(x.neg /\ y.neg)
              ELSE IF x.m = <<>> THEN y
              ELSE IF y.m = <<>> THEN x
              ELSE
              LET hi == IF x.e >= y.e THEN x ELSE y
                  lo == IF x.e >= y.e THEN y ELSE x
                  gap == hi.e - lo.e
              IN  IF gap > AlignGap
                  THEN \* lo is far below half an ulp of hi
                       LET H == BigShl(hi.m, 2)
                       IN  IF hi.neg = lo.neg
                           THEN FRound(hi.neg, H, hi.e - 2, TRUE)
                           ELSE FRound(hi.neg, BigSub(H, BigOne), hi.e - 2, TRUE)
                  ELSE LET H == BigShl(hi.m, gap)
                           c == BigCmp(H, lo.m)
                       IN  IF hi.neg = lo.neg THEN FRound(hi.neg, BigAdd(H, lo.m), lo.e, FALSE)
                           ELSE IF c = 0 THEN FZero(FALSE)
                           ELSE IF c > 0 THEN FRound(hi.neg, BigSub(H, lo.m), lo.e, FALSE)
                           ELSE FRound(lo.neg, BigSub(lo.m, H), lo.e, FALSE)
          )
    \* FSub(x, y)
      [] op_ = "FSub" ->
          LET x == av_[1]
              y == av_[2]
          IN  (
              FAdd(x, FNeg(y))
          )
    \* FMul(x, y)
      [] op_ = "FMul" ->
          LET x == av_[1]
              y == av_[2]
          IN  (
              IF x.m = <<>> \/ y.m = <<>> THEN FZero(x.neg # y.neg)
              ELSE FRound(x.neg # y.neg, BigMul(x.m, y.m), x.e + y.e, FALSE)
          )
    \* FQuot(neg, n, d, e)
      [] op_ = "FQuot" ->
          LET neg == av_[1]
              n == av_[2]
              d == av_[3]
              e == av_[4]
          IN  (
              IF n = <<>> THEN FZero(neg)
              ELSE
              LET k  == Max(0, QuotBits + BigBitLen(d) - BigBitLen(n))
                  qr == BigDivMod(BigShl(n, k), d)
              IN  IF qr[2] = <<>> THEN FRound(neg, qr[1], e - k, FALSE)
                  ELSE FRound(neg, qr[1], e - k, TRUE)
          )
    \* FSqrt(x)
      [] op_ = "FSqrt" ->
          LET x == av_[1]
          IN  (
              IF x.m = <<>> THEN x
              ELSE
              LET s0 == Max(0, SqrtBits - BigBitLen(x.m))
                  s  == IF (x.e - s0) % 2 = 0 THEN s0 ELSE s0 + 1
                  N  == BigShl(x.m, s)
                  r  == BigSqrt(N)
              IN  FRound(FALSE, r, (x.e - s) \div 2, BigMul(r, r) # N)
          )
    \* FInt(n)
      [] op_ = "FInt" ->
          LET n == av_[1]
          IN  (
              FRound(n < 0, BigOfNat(Abs(n)), 0, FALSE)
          )
    \* FDec(n, k)
      [] op_ = "FDec" ->
          LET n == av_[1]
              k == av_[2]
          IN  (
              FQuot(n < 0, BigOfNat(Abs(n)), BigPow10(k), 0)
          )
    \* FDec3(a, b, c, k)
      [] op_ = "FDec3" ->
          LET a == av_[1]
              b == av_[2]
              c == av_[3]
              k == av_[4]
          IN  (
              LET hi  == BigMulSmall(BigMulSmall(BigOfNat(a), 1000), 1000)
                  mid == BigAdd(hi, BigOfNat(b))
                  all == BigAdd(BigMulSmall(BigMulSmall(mid, 1000), 1000), BigOfNat(c))
              IN  FQuot(FALSE, all, BigPow10(k), 0)
          )
    \* IntOf(n)
      [] op_ = "IntOf" ->
          LET n == av_[1]
          IN  (
              [neg |-> n < 0, mag |-> BigOfNat(Abs(n))]
          )
    \* IntPow2(k)
      [] op_ = "IntPow2" ->
          LET k == av_[1]
          IN  (
              [neg |-> FALSE, mag |-> BigShl(BigOne, k)]
          )
    \* ICmp(a, b)
      [] op_ = "ICmp" ->
          LET a == av_[1]
              b == av_[2]
          IN  (
              IF ISign(a) # ISign(b) THEN (IF ISign(a) < ISign(b) THEN -1 ELSE 1)
              ELSE ISign(a) * BigCmp(a.mag, b.mag)
          )
    \* IAdd(a, b)
      [] op_ = "IAdd" ->
          LET a == av_[1]
              b == av_[2]
          IN  (
              IF ISign(a) * ISign(b) >= 0
              THEN [neg |-> ISign(a) + ISign(b) < 0, mag |-> BigAdd(a.mag, b.mag)]
              ELSE IF BigCmp(a.mag, b.mag) >= 0
              THEN [neg |-> a.neg /\ a.mag # b.mag, mag |-> BigSub(a.mag, b.mag)]
              ELSE [neg |-> b.neg, mag |-> BigSub(b.mag, a.mag)]
          )
    \* ITrueDiv(a, b)
      [] op_ = "ITrueDiv" ->
          LET a == av_[1]
              b == av_[2]
          IN  (
              FQuot(ISign(a) * ISign(b) < 0, a.mag, b.mag, 0)
          )
    \* FOfInt(a)
      [] op_ = "FOfInt" ->
          LET a == av_[1]
          IN  (
              FRound(ISign(a) < 0, a.mag, 0, FALSE)
          )
    \* IntTooLarge(a)
      [] op_ = "IntTooLarge" ->
          LET a == av_[1]
          IN  (
              BigBitLen(FOfInt(a).m) + FOfInt(a).e > MaxExp
          )
    \* ErfKnot(i)
      [] op_ = "ErfKnot" ->
          LET i == av_[1]
          IN  (
              CASE i = 1 -> FDec3(276326, 390168, 236902, 18)
                [] i = 2 -> FDec3(520499, 877813, 46519, 18)
                [] i = 3 -> FDec3(711155, 633653, 515085, 18)
                [] i = 4 -> FDec3(842700, 792949, 714894, 18)
                [] i = 5 -> FDec3(922900, 128256, 458174, 18)
                [] i = 6 -> FDec3(966105, 146475, 310761, 18)
                [] i = 7 -> FDec3(986671, 671219, 182422, 18)
                [] i = 8 -> FDec3(995322, 265018, 952712, 18)
                [] i = 9 -> FDec3(998537, 283413, 318821, 18)
                [] i = 10 -> FDec3(999593, 47982, 554994, 18)
                [] i = 11 -> FDec3(999899, 378077, 880319, 18)
                [] i = 12 -> FDec3(999977, 909503, 1361, 18)
                [] i = 13 -> FDec3(999995, 697220, 536273, 18)
                [] i = 14 -> FDec3(999999, 256901, 627609, 18)
                [] i = 15 -> FDec3(999999, 886272, 743388, 18)
                [] i = 16 -> FDec3(999999, 984582, 742085, 18)
                [] i = 17 -> FDec3(999999, 998149, 425862, 18)
                [] i = 18 -> FDec3(999999, 999803, 383943, 18)
                [] i = 19 -> FDec3(999999, 999981, 514898, 18)
                [] i = 20 -> FDec3(999999, 999998, 462563, 18)
                [] i = 21 -> FDec3(999999, 999999, 886868, 18)
                [] i = 22 -> FDec3(999999, 999999, 992673, 18)
                [] i = 23 -> FDec3(999999, 999999, 999556, 18)
          )
    \* ErfStep(x)
      [] op_ = "ErfStep" ->
          LET x == av_[1]
          IN  (
              LET i == BigShr(x.m, 0 - (x.e + 2))
              IN  IF i = <<>> THEN FAdd(ErfTiny, FMul(Efx, ErfTiny))
                  ELSE ErfKnot(i[1])
          )
    \* erf(x)
      [] op_ = "erf" ->
          LET x == av_[1]
          IN  (
              LET a == FAbs(x)
                  y == IF a.m = <<>> THEN a
                       ELSE IF FLt(a, ErfSub)
                            THEN FMul(FDec(125, 3),
                                      FAdd(FMul(FInt(8), a), FMul(Efx8, a)))
                       ELSE IF FLt(a, ErfTiny) THEN FAdd(a, FMul(Efx, a))
                       ELSE IF FLe(FInt(ErfOne), a) THEN FInt(1)
                       ELSE ErfStep(a)
              IN  [y EXCEPT !.neg = x.neg]
          )
    \* AtanhTerm(j, u, rest)
      [] op_ = "AtanhTerm" ->
          LET j == av_[1]
              u == av_[2]
              rest == av_[3]
          IN  (
              FAdd(FDiv(FInt(1), FInt(2 * j + 1)), FMul(u, rest))
          )
    \* Atanh(t)
      [] op_ = "Atanh" ->
          LET t == av_[1]
          IN  (
              LET u   == FMul(t, t)
                  h10 == FDiv(FInt(1), FInt(21))
                  h9  == AtanhTerm(9, u, h10)
                  h8  == AtanhTerm(8, u, h9)
                  h7  == AtanhTerm(7, u, h8)
                  h6  == AtanhTerm(6, u, h7)
                  h5  == AtanhTerm(5, u, h6)
                  h4  == AtanhTerm(4, u, h5)
                  h3  == AtanhTerm(3, u, h4)
                  h2  == AtanhTerm(2, u, h3)
                  h1  == AtanhTerm(1, u, h2)
                  h0  == AtanhTerm(0, u, h1)
                  run == <<u, h10, h9, h8, h7, h6, h5, h4, h3, h2, h1, h0, FMul(t, h0)>>
              IN  run[13]
          )
    \* log(x)
      [] op_ = "log" ->
          LET x == av_[1]
          IN  (
              LET bl  == BigBitLen(x.m)
                  f1  == FRound(FALSE, x.m, 1 - bl, FALSE)
                  big == FLe(FDec(15, 1), f1)
                  f   == IF big THEN FMul(f1, FDec(5, 1)) ELSE f1
                  k   == IF big THEN x.e + bl ELSE x.e + bl - 1
                  t   == FDiv(FSub(f, FInt(1)), FAdd(f, FInt(1)))
                  at  == Atanh(t)
                  run == <<f, t, at, FAdd(FMul(FInt(k), Ln2), FMul(FInt(2), at))>>
              IN  run[4]
          )
    \* _inverse_normal_cdf(p)
      [] op_ = "_inverse_normal_cdf" ->
          LET p == av_[1]
          IN  (
              IF FLe(p, FZero(FALSE)) \/ FLe(FInt(1), p)
              THEN Raise("ValueError", "Probability must be between 0 and 1 (exclusive)")
              ELSE IF FLt(FAbs(FSub(p, FDec(25, 3))), FDec(1, 6)) THEN FDec(-196, 2)
              ELSE IF FLt(FAbs(FSub(p, FDec(5, 3))), FDec(1, 6)) THEN FDec(-2576, 3)
              ELSE IF FLt(FDec(5, 1), p) THEN FNeg(_inverse_normal_cdf(FSub(FInt(1), p)))
              ELSE
              LET c0 == FDec(2515517, 6)
                  c1 == FDec(802853, 6)
                  c2 == FDec(10328, 6)
                  d1 == FDec(1432788, 6)
                  d2 == FDec(189269, 6)
                  d3 == FDec(1308, 6)
                  ln == log(p)
                  t  == FSqrt(FMul(FInt(-2), ln))
                  num == FAdd(FAdd(c0, FMul(c1, t)), FMul(FMul(c2, t), t))
                  den == FAdd(FAdd(FAdd(FInt(1), FMul(d1, t)), FMul(FMul(d2, t), t)),
                              FMul(FMul(FMul(d3, t), t), t))
                  z  == FSub(t, FDiv(num, den))
                  locals == <<ln, t, num, den, z, FNeg(z)>>
              IN  locals[6]
          )
    \* z_crit(alpha)
      [] op_ = "z_crit" ->
          LET alpha == av_[1]
          IN  (
              IF FEq(alpha, FDec(5, 2)) THEN FDec(196, 2)
              ELSE LET q == _inverse_normal_cdf(FDiv(alpha, FInt(2)))
                   IN  IF Raised(q) THEN q ELSE FAbs(q)
          )
    \* unpooled_se_first_arm(var_a, var_b)
      [] op_ = "unpooled_se_first_arm" ->
          LET var_a == av_[1]
              var_b == av_[2]
          IN  (
              FSqrt(FAdd(var_a, var_a))
          )
    \* unpooled_se(var_a, var_b)
      [] op_ = "unpooled_se" ->
          LET var_a == av_[1]
              var_b == av_[2]
          IN  (
              FSqrt(FAdd(var_a, var_b))
          )
    \* two_proportion_test(successes_a, total_a, successes_b, total_b, alpha)
      [] op_ = "two_proportion_test" ->
          LET successes_a == av_[1]
              total_a == av_[2]
              successes_b == av_[3]
              total_b == av_[4]
              alpha == av_[5]
          IN  (
              IF ISign(total_a) <= 0 \/ ISign(total_b) <= 0
              THEN Raise("ValueError", "Total observations must be positive")
              ELSE IF ISign(successes_a) < 0 \/ ISign(successes_b) < 0
              THEN Raise("ValueError", "Successes cannot be negative")
              ELSE IF ICmp(successes_a, total_a) > 0 \/ ICmp(successes_b, total_b) > 0
              THEN Raise("ValueError", "Successes cannot exceed total observations")
              ELSE IF ~(FLt(FZero(FALSE), alpha) /\ FLt(alpha, FInt(1)))
              THEN Raise("ValueError", "Alpha must be between 0 and 1")
              ELSE
              LET one == FInt(1)
                  p_a == ITrueDiv(successes_a, total_a)
                  p_b == ITrueDiv(successes_b, total_b)
                  effect_abs == FSub(p_b, p_a)
                  effect_rel == IF FLt(FZero(FALSE), p_a)
                                THEN FDiv(FSub(p_b, p_a), p_a) ELSE FInf
                  p_pooled == ITrueDiv(IAdd(successes_a, successes_b),
                                       IAdd(total_a, total_b))
                  \* line 72, operand by operand
                  var_pooled == FMul(p_pooled, FSub(one, p_pooled))
                  inv_a == ITrueDiv(IntOf(1), total_a)
                  inv_b == ITrueDiv(IntOf(1), total_b)
                  se_pooled == FSqrt(FMul(var_pooled, FAdd(inv_a, inv_b)))
                  z_stat == IF FLt(FZero(FALSE), se_pooled)
                            THEN FDiv(effect_abs, se_pooled) ELSE FZero(FALSE)
                  \* line 79, operand by operand
                  erf_arg == FDiv(FAbs(z_stat), FSqrt(FInt(2)))
                  erf_val == erf(erf_arg)
                  cdf == FMul(FDec(5, 1), FAdd(one, erf_val))
                  p_value == FMul(FInt(2), FSub(one, cdf))
                  \* line 82, operand by operand
                  overflow == IntTooLarge(total_a) \/ IntTooLarge(total_b)
                  var_a == FDiv(FMul(p_a, FSub(one, p_a)), FOfInt(total_a))
                  var_b == FDiv(FMul(p_b, FSub(one, p_b)), FOfInt(total_b))
                  se_unpooled == unpooled_se(var_a, var_b)
                  zc == z_crit(alpha)
                  \* the assignments in statement order
                  locals == <<p_a, p_b, effect_abs, effect_rel, p_pooled, var_pooled,
                              inv_a, inv_b, se_pooled, z_stat, erf_arg, erf_val, cdf,
                              p_value, overflow, var_a, var_b, se_unpooled, zc>>
              IN  IF locals[15]
                  THEN Raise("OverflowError", "int too large to convert to float")
                  ELSE IF Raised(zc) THEN zc
                  ELSE [p_value    |-> p_value,
                        ci_low     |-> FSub(effect_abs, FMul(zc, se_unpooled)),
                        ci_high    |-> FAdd(effect_abs, FMul(zc, se_unpooled)),
                        effect_abs |-> effect_abs,
                        effect_rel |-> effect_rel]
          )
    \* FFormat(x, places)
      [] op_ = "FFormat" ->
          LET x == av_[1]
              places == av_[2]
          IN  (
              IF x.m = <<>> THEN [neg |-> x.neg, digits |-> <<>>, places |-> places]
              ELSE
              LET scaled == BigMul(x.m, BigPow10(places))
                  drop   == 0 - x.e
                  q      == BigShr(scaled, Max(drop, 0))
                  half   == drop > 0 /\ BigBit(scaled, drop - 1) = 1
                  tie    == BigLowZero(scaled, drop - 1)
                  up     == half /\ (~tie \/ BigBit(q, 0) = 1)
              IN  IF drop <= 0
                  THEN [neg |-> x.neg, digits |-> BigShl(scaled, x.e), places |-> places]
                  ELSE [neg |-> x.neg, places |-> places,
                        digits |-> IF up THEN BigAdd(q, BigOne) ELSE q]
          )
    \* KeyRuleType(key)
      [] op_ = "KeyRuleType" ->
          LET key == av_[1]
          IN  (
              LET hit == {j \in 1..Len(RuleKinds) : StartsWith(key, RuleKinds[j][1])}
              IN  IF hit = {} THEN "None"
                  ELSE RuleKinds[CHOOSE j \in hit : \A i \in hit : j <= i][2]
          )
    \* RuleScan_first_match(items)
      [] op_ = "RuleScan_first_match" ->
          LET items == av_[1]
          IN  (
              LET hit == {i \in 1..Len(items) : KeyRuleType(items[i][1]) # "None"}
                  first == CHOOSE i \in hit : \A j \in hit : i <= j
              IN  IF hit = {} THEN [rule_type |-> "None", threshold |-> PyNone]
                  ELSE [rule_type |-> KeyRuleType(items[first][1]),
                        threshold |-> items[first][2]]
          )
    \* RuleScan_default_kind(items)
      [] op_ = "RuleScan_default_kind" ->
          LET items == av_[1]
          IN  (
              LET hit == {i \in 1..Len(items) : KeyRuleType(items[i][1]) # "None"}
                  last == CHOOSE i \in hit : \A j \in hit : j <= i
              IN  IF hit = {} THEN [rule_type |-> "drop_pp", threshold |-> FZero(FALSE)]
                  ELSE [rule_type |-> KeyRuleType(items[last][1]),
                        threshold |-> items[last][2]]
          )
    \* RuleScan(items)
      [] op_ = "RuleScan" ->
          LET items == av_[1]
          IN  (
              LET hit == {i \in 1..Len(items) : KeyRuleType(items[i][1]) # "None"}
                  last == CHOOSE i \in hit : \A j \in hit : j <= i
              IN  IF hit = {} THEN [rule_type |-> "None", threshold |-> PyNone]
                  ELSE [rule_type |-> KeyRuleType(items[last][1]),
                        threshold |-> items[last][2]]
          )
    \* GuardrailDelta(rule_type, baseline_value, treatment_value)
      [] op_ = "GuardrailDelta" ->
          LET rule_type == av_[1]
              baseline_value == av_[2]
              treatment_value == av_[3]
          IN  (
              IF rule_type = "drop_pp" THEN FSub(baseline_value, treatment_value)
              ELSE IF rule_type = "drop_pct"
              THEN FMul(FDiv(FSub(baseline_value, treatment_value), baseline_value),
                        FInt(100))
              ELSE IF rule_type = "increase_pct"
              THEN FMul(FDiv(FSub(treatment_value, baseline_value), baseline_value),
                        FInt(100))
              ELSE FSub(treatment_value, baseline_value)
          )
    \* PercentOfZero_any_kind(rule_type, baseline_value)
      [] op_ = "PercentOfZero_any_kind" ->
          LET rule_type == av_[1]
              baseline_value == av_[2]
          IN  (
              FIsZero(baseline_value)
          )
    \* PercentOfZero(rule_type, baseline_value)
      [] op_ = "PercentOfZero" ->
          LET rule_type == av_[1]
              baseline_value == av_[2]
          IN  (
              rule_type \in {"drop_pct", "increase_pct"} /\ FIsZero(baseline_value)
          )
    \* ZeroBaselineMessage(rule_type)
      [] op_ = "ZeroBaselineMessage" ->
          LET rule_type == av_[1]
          IN  (
              IF rule_type = "drop_pct"
              THEN <<"Cannot compute percent drop with baseline = 0">>
              ELSE <<"Cannot compute percent increase with baseline = 0">>
          )
    \* GuardrailMessage_always_pass(rule_type, delta, baseline_value, treatment_value, threshold, passed)
      [] op_ = "GuardrailMessage_always_pass" ->
          LET rule_type == av_[1]
              delta == av_[2]
              baseline_value == av_[3]
              treatment_value == av_[4]
              threshold == av_[5]
              passed == av_[6]
          IN  (
              LET w == GuardrailWords(rule_type)
              IN  <<w.verb, FFormat(delta, w.places), w.unit, " (baseline: ",
                    FFormat(baseline_value, w.places), w.vunit, ", treatment: ",
                    FFormat(treatment_value, w.places), w.vunit, "). Threshold: ",
                    threshold, w.unit, ". ", "PASS">>
          )
    \* GuardrailMessage(rule_type, delta, baseline_value, treatment_value, threshold, passed)
      [] op_ = "GuardrailMessage" ->
          LET rule_type == av_[1]
              delta == av_[2]
              baseline_value == av_[3]
              treatment_value == av_[4]
              threshold == av_[5]
              passed == av_[6]
          IN  (
              LET w == GuardrailWords(rule_type)
              IN  <<w.verb, FFormat(delta, w.places), w.unit, " (baseline: ",
                    FFormat(baseline_value, w.places), w.vunit, ", treatment: ",
                    FFormat(treatment_value, w.places), w.vunit, "). Threshold: ",
                    threshold, w.unit, ". ", IF passed THEN "PASS" ELSE "FAIL">>
          )
    \* guardrail_eval(baseline_value, treatment_value, rule)
      [] op_ = "guardrail_eval" ->
          LET baseline_value == av_[1]
              treatment_value == av_[2]
              rule == av_[3]
          IN  (
              IF rule.items = <<>> \/ rule.type # "dict"
              THEN Raise("ValueError", <<"Rule must be a non-empty dictionary">>)
              ELSE
              LET scan      == RuleScan(rule.items)
                  rule_type == scan.rule_type
                  threshold == scan.threshold
                  delta     == GuardrailDelta(rule_type, baseline_value, treatment_value)
                  passed    == FLe(delta, threshold)
              IN  IF rule_type = "None" \/ IsNone(threshold)
                  THEN Raise("ValueError", <<"Unrecognized rule format: ", rule>>)
                  ELSE IF PercentOfZero(rule_type, baseline_value)
                  THEN [passed |-> FALSE, message |-> ZeroBaselineMessage(rule_type)]
                  ELSE [passed |-> passed,
                        message |-> GuardrailMessage(rule_type, delta, baseline_value,
                                                     treatment_value, threshold, passed)]
          )
    \* PyMax0(x)
      [] op_ = "PyMax0" ->
          LET x == av_[1]
          IN  (
              IF FLt(FZero(FALSE), x) THEN x ELSE FZero(FALSE)
          )
    \* PyMin1(x)
      [] op_ = "PyMin1" ->
          LET x == av_[1]
          IN  (
              IF FLt(x, FInt(1)) THEN x ELSE FInt(1)
          )
    \* proportion_bounds(rate, margin)
      [] op_ = "proportion_bounds" ->
          LET rate == av_[1]
              margin == av_[2]
          IN  (
              <<PyMax0(FSub(rate, margin)), PyMin1(FAdd(rate, margin))>>
          )
    \* proportion_ci(successes, total, alpha)
      [] op_ = "proportion_ci" ->
          LET successes == av_[1]
              total == av_[2]
              alpha == av_[3]
          IN  (
              IF ISign(total) <= 0
              THEN Raise("ValueError", "Total observations must be positive")
              ELSE IF ISign(successes) < 0
              THEN Raise("ValueError", "Successes cannot be negative")
              ELSE IF ICmp(successes, total) > 0
              THEN Raise("ValueError", "Successes cannot exceed total observations")
              ELSE IF ~(FLt(FZero(FALSE), alpha) /\ FLt(alpha, FInt(1)))
              THEN Raise("ValueError", "Alpha must be between 0 and 1")
              ELSE
              LET rate     == ITrueDiv(successes, total)
                  \* line 140, operand by operand
                  overflow == IntTooLarge(total)
                  se       == FSqrt(FDiv(FMul(rate, FSub(FInt(1), rate)), FOfInt(total)))
                  zc       == z_crit(alpha)
                  locals   == <<rate, overflow, se, zc>>
              IN  IF locals[2]
                  THEN Raise("OverflowError", "int too large to convert to float")
                  ELSE IF Raised(zc) THEN zc
                  ELSE LET ci == proportion_bounds(rate, FMul(zc, se))
                       IN  [rate |-> rate, ci_low |-> ci[1], ci_high |-> ci[2]]
          )
    \* StatScale(xs)
      [] op_ = "StatScale" ->
          LET xs == av_[1]
          IN  (
              CHOOSE e \in {xs[i].e : i \in DOMAIN xs} :
                  \A i \in DOMAIN xs : e <= xs[i].e
          )
    \* StatInt(x, emin)
      [] op_ = "StatInt" ->
          LET x == av_[1]
              emin == av_[2]
          IN  (
              [neg |-> x.neg /\ x.m # <<>>, mag |-> BigShl(x.m, x.e - emin)]
          )
    \* StatSum(xs, emin, i)
      [] op_ = "StatSum" ->
          LET xs == av_[1]
              emin == av_[2]
              i == av_[3]
          IN  (
              IF i = 0 THEN IntOf(0)
              ELSE IAdd(StatSum(xs, emin, i - 1), StatInt(xs[i], emin))
          )
    \* StatSumSq(xs, emin, i)
      [] op_ = "StatSumSq" ->
          LET xs == av_[1]
              emin == av_[2]
              i == av_[3]
          IN  (
              IF i = 0 THEN <<>>
              ELSE LET X == StatInt(xs[i], emin).mag
                   IN  BigAdd(StatSumSq(xs, emin, i - 1), BigMul(X, X))
          )
    \* StatMean(xs)
      [] op_ = "StatMean" ->
          LET xs == av_[1]
          IN  (
              LET emin == StatScale(xs)
                  S    == StatSum(xs, emin, Len(xs))
              IN  FQuot(S.neg /\ S.mag # <<>>, S.mag, BigOfNat(Len(xs)), emin)
          )
    \* StatStdev(xs)
      [] op_ = "StatStdev" ->
          LET xs == av_[1]
          IN  (
              LET n    == Len(xs)
                  emin == StatScale(xs)
                  S    == StatSum(xs, emin, n)
                  SXX  == StatSumSq(xs, emin, n)
                  N    == BigSub(BigMul(SXX, BigOfNat(n)), BigMul(S.mag, S.mag))
                  D    == BigOfNat(n * (n - 1))
                  k    == SqrtBits + BigBitLen(D)
                  qr   == BigDivMod(BigShl(N, 2 * k), D)
                  r    == BigSqrt(qr[1])
                  run  == <<S, SXX, N, qr, r>>
              IN  IF run[3] = <<>> THEN FZero(FALSE)
                  ELSE FRound(FALSE, r, emin - k,
                              qr[2] # <<>> \/ BigMul(r, r) # qr[1])
          )
    \* mean_bounds(mean, margin)
      [] op_ = "mean_bounds" ->
          LET mean == av_[1]
              margin == av_[2]
          IN  (
              <<FSub(mean, margin), FAdd(mean, margin)>>
          )
    \* mean_ci(values, alpha)
      [] op_ = "mean_ci" ->
          LET values == av_[1]
              alpha == av_[2]
          IN  (
              IF values.items = <<>>
              THEN Raise("ValueError", "Values array cannot be empty")
              ELSE IF Len(values.items) < 2
              THEN Raise("ValueError",
                         "Need at least 2 values to compute confidence interval")
              ELSE IF ~(FLt(FZero(FALSE), alpha) /\ FLt(alpha, FInt(1)))
              THEN Raise("ValueError", "Alpha must be between 0 and 1")
              ELSE IF \E i \in DOMAIN values.items : IsNone(values.items[i])
              THEN Raise("ValueError", "All values must be numeric")
              ELSE
              LET n      == Len(values.items)
                  mean   == StatMean(values.items)
                  stdev  == StatStdev(values.items)
                  se     == FDiv(stdev, FSqrt(FInt(n)))
                  zc     == z_crit(alpha)
                  locals == <<mean, stdev, se, zc>>
              IN  IF n = 1
                  THEN [mean |-> locals[1], ci_low |-> mean, ci_high |-> mean,
                        branch |-> "single value"]
                  ELSE IF Raised(locals[4]) THEN zc
                  ELSE LET ci == mean_bounds(mean, FMul(zc, se))
                       IN  [mean |-> mean, ci_low |-> ci[1], ci_high |-> ci[2],
                            branch |-> "interval"]
          )
    \* AddDays(date, n)
      [] op_ = "AddDays" ->
          LET date == av_[1]
              n == av_[2]
          IN  (
              IF n <= 0 THEN date ELSE AddDays(NextDay(date), n - 1)
          )
    \* simulated_user_ids(start, days, users)
      [] op_ = "simulated_user_ids" ->
          LET start == av_[1]
              days == av_[2]
              users == av_[3]
          IN  (
              {user_id(AddDays(start, day_offset), i) :
                  day_offset \in 0..(days - 1), i \in 0..(users - 1)}
          )
    \* FunnelSteps(k, st, ctx)
      [] op_ = "FunnelSteps" ->
          LET k == av_[1]
              st == av_[2]
              ctx == av_[3]
          IN  (
              IF k > 4 THEN st
              ELSE
              LET step_name == <<"address", "shipping", "payment", "review">>[k]
                  fields == <<  <<"street", "city", "state", "zip", "country">>,
                                <<"method", "instructions">>,
                                <<"card_number", "cvv", "expiry", "billing_zip">>,
                                <<"terms_acceptance", "newsletter_opt_in">>  >>[k]
                  rate == <<FDec(20, 2), FDec(15, 2), FDec(10, 2), FDec(5, 2)>>[k]
                  R(j) == rng_random(ctx.seed, st.n + j)
                  hour_view == st.hour + 5000 + 15 * R(0)
                  view == [checkout_id |-> ctx.checkout_id, step_name |-> step_name,
                           step_index |-> k - 1,
                           timestamp |-> <<ctx.base_date, hour_view>>,
                           variant |-> ctx.variant,
                           latency_ms |-> 200 + (R(1) * 1801) \div 1000]
                  failed == FLt(FDec(R(2), 3), FMul(FDec(10, 2), ctx.error_multiplier))
                  codes == list_of_set(ctx.env, "VALID_ERROR_CODES")
                  hour_error == IF failed THEN hour_view + 1000 + 4 * R(5) ELSE hour_view
                  error == [checkout_id |-> ctx.checkout_id, step_name |-> step_name,
                            field_name |-> fields[(R(4) % Len(fields)) + 1],
                            error_code |-> codes[(R(3) % Len(codes)) + 1],
                            timestamp |-> <<ctx.base_date, hour_error>>,
                            variant |-> ctx.variant]
                  drawn == IF failed THEN 6 ELSE 3
                  abandoned == FLt(FDec(R(drawn), 3), FMul(rate, ctx.abandon_multiplier))
                  next == [n |-> st.n + drawn + 1, hour |-> hour_error,
                           views |-> Append(st.views, view),
                           errors |-> IF failed THEN Append(st.errors, error) ELSE st.errors,
                           abandoned |-> abandoned]
              IN  IF abandoned THEN next ELSE FunnelSteps(k + 1, next, ctx)
          )
    \* simulate_user_funnel(uid, session_id, variant, base_date, uplift, seed, env, n, u)
      [] op_ = "simulate_user_funnel" ->
          LET uid == av_[1]
              session_id == av_[2]
              variant == av_[3]
              base_date == av_[4]
              uplift == av_[5]
              seed == av_[6]
              env == av_[7]
              n == av_[8]
              u == av_[9]
          IN  (
              LET treated == variant = "treatment"
                  uplift_multiplier ==
                      IF treated THEN FAdd(FInt(1), uplift) ELSE FInt(1)
                  error_multiplier ==
                      IF treated THEN FSub(FInt(1), FMul(uplift, FDec(4, 1))) ELSE FInt(1)
                  abandon_multiplier ==
                      IF treated THEN FSub(FInt(1), FMul(uplift, FDec(3, 1))) ELSE FInt(1)
                  R(j) == rng_random(seed, n + j)
                  hour_cart == 24000 * R(0)
                  cart_value == 2000 + 48 * R(1)
                  add_to_cart == [user_id |-> uid, session_id |-> session_id,
                                  timestamp |-> <<base_date, hour_cart>>,
                                  cart_value |-> cart_value, items_count |-> 1 + (R(2) % 10),
                                  variant |-> variant]
                  leaves == FLt(FMul(FDec(67, 2), uplift_multiplier), FDec(R(3), 3))
                  checkout_id == uuid4(env, u)
                  hour_begin == hour_cart + 10000 + 90 * R(4)
                  begin_checkout == [user_id |-> uid, checkout_id |-> checkout_id,
                                     timestamp |-> <<base_date, hour_begin>>,
                                     variant |-> variant]
                  steps == FunnelSteps(1, [n |-> n + 5, hour |-> hour_begin, views |-> <<>>,
                                           errors |-> <<>>, abandoned |-> FALSE],
                                       [seed |-> seed, env |-> env, checkout_id |-> checkout_id,
                                        variant |-> variant, base_date |-> base_date,
                                        error_multiplier |-> error_multiplier,
                                        abandon_multiplier |-> abandon_multiplier])
                  P(j) == rng_random(seed, steps.n + j)
                  hour_pay == steps.hour + 10000 + 20 * P(0)
                  methods == list_of_set(env, "VALID_PAYMENT_METHODS")
                  authorized == FLt(FDec(P(2), 3), FMul(FDec(92, 2), uplift_multiplier))
                  payment_attempt == [checkout_id |-> checkout_id,
                                      payment_method |-> methods[(P(1) % Len(methods)) + 1],
                                      authorized |-> authorized,
                                      timestamp |-> <<base_date, hour_pay>>,
                                      variant |-> variant]
                  order_completed == [order_id |-> <<"ORD-", uuid4(env, u + 1)>>,
                                      checkout_id |-> checkout_id, user_id |-> uid,
                                      timestamp |-> <<base_date, hour_pay + 1000 + 9 * P(3)>>,
                                      order_value |-> cart_value, currency |-> "USD",
                                      variant |-> variant]
              IN  IF leaves
                  THEN [events |-> << <<add_to_cart>>, <<>>, <<>>, <<>>, <<>>, <<>> >>,
                        n |-> n + 4, u |-> u]
                  ELSE IF steps.abandoned
                  THEN [events |-> << <<add_to_cart>>, <<begin_checkout>>, steps.views,
                                      steps.errors, <<>>, <<>> >>,
                        n |-> steps.n, u |-> u + 1]
                  ELSE [events |-> << <<add_to_cart>>, <<begin_checkout>>, steps.views,
                                      steps.errors, <<payment_attempt>>,
                                      IF authorized THEN <<order_completed>> ELSE <<>> >>,
                        n |-> steps.n + (IF authorized THEN 4 ELSE 3),
                        u |-> u + (IF authorized THEN 2 ELSE 1)]
          )
    \* simulate_users(i, date, num_users, uplift, seed, env, day)
      [] op_ = "simulate_users" ->
          LET i == av_[1]
              date == av_[2]
              num_users == av_[3]
              uplift == av_[4]
              seed == av_[5]
              env == av_[6]
              day == av_[7]
          IN  (
              IF i >= num_users THEN day
              ELSE
              LET funnel == simulate_user_funnel(user_id(date, i), uuid4(env, day.u),
                                                 assign_variant(user_id(date, i)), date, uplift,
                                                 seed, env, day.n, day.u + 1)
              IN  simulate_users(i + 1, date, num_users, uplift, seed, env,
                                 [events |-> [e \in 1..6 |-> day.events[e] \o funnel.events[e]],
                                  n |-> funnel.n, u |-> funnel.u])
          )
    \* simulate(day_offset, start, days, users, uplift, seed, output, env, run)
      [] op_ = "simulate" ->
          LET day_offset == av_[1]
              start == av_[2]
              days == av_[3]
              users == av_[4]
              uplift == av_[5]
              seed == av_[6]
              output == av_[7]
              env == av_[8]
              run == av_[9]
          IN  (
              IF day_offset >= days THEN run.files
              ELSE
              LET date == AddDays(start, day_offset)
                  day == simulate_users(0, date, users, uplift, seed, env,
                                        [events |-> [e \in 1..6 |-> <<>>],
                                         n |-> run.n, u |-> run.u])
                  names == <<"add_to_cart", "begin_checkout", "checkout_step_view",
                             "form_error", "payment_attempt", "order_completed">>
                  written_files ==
                      {[path |-> <<output, names[e], <<"date=", date>>, "part-0001.parquet">>,
                        rows |-> day.events[e]] : e \in {x \in 1..6 : day.events[x] # <<>>}}
              IN  simulate(day_offset + 1, start, days, users, uplift, seed, output, env,
                           [files |-> run.files \cup written_files, n |-> day.n, u |-> day.u])
          )
    \* simulate_main(argv, env)
      [] op_ = "simulate_main" ->
          LET argv == av_[1]
              env == av_[2]
          IN  (
              simulate(0, argv[1], argv[2], argv[3], FloatOf(argv[4]), argv[5], argv[6], env,
                       [files |-> {}, n |-> 0, u |-> 0])
          )
    \* load_experiment_config(text)
      [] op_ = "load_experiment_config" ->
          LET text == av_[1]
          IN  (
              IF IsNone(text) THEN PyNone
              ELSE [key \in DOMAIN text |->
                      IF key \in {"alpha", "mde_abs"} THEN FloatOf(text[key])
                      ELSE IF key = "metrics"
                      THEN [m \in DOMAIN text.metrics |->
                              IF m = "guardrails"
                              THEN [g \in DOMAIN text.metrics.guardrails |->
                                      FloatOf(text.metrics.guardrails[g])]
                              ELSE text.metrics[m]]
                      ELSE text[key]]
          )
    \* warehouse_rows(rows)
      [] op_ = "warehouse_rows" ->
          LET rows == av_[1]
          IN  (
              IF Raised(rows) THEN rows
              ELSE [variant_counts |->
                      [v \in {"control", "treatment"} |->
                          [orders |-> IntOf(rows.variant_counts[v].orders),
                           adders |-> IntOf(rows.variant_counts[v].adders)]],
                    guardrails |->
                      [v \in {"control", "treatment"} |->
                          [payment_auth |->
                              [authorized |-> IntOf(rows.guardrails[v].payment_auth.authorized),
                               total_attempts |->
                                   IntOf(rows.guardrails[v].payment_auth.total_attempts)],
                           aov |-> [mean |-> FloatOf(rows.guardrails[v].aov.mean)]]]]
          )
    \* print_ccr_analysis(variant_counts, alpha)
      [] op_ = "print_ccr_analysis" ->
          LET variant_counts == av_[1]
              alpha == av_[2]
          IN  (
              two_proportion_test(variant_counts.control.orders, variant_counts.control.adders,
                                  variant_counts.treatment.orders, variant_counts.treatment.adders,
                                  alpha)
          )
    \* evaluate_guardrail(config, threshold_key, rule_key, baseline_value, treatment_value)
      [] op_ = "evaluate_guardrail" ->
          LET config == av_[1]
              threshold_key == av_[2]
              rule_key == av_[3]
              baseline_value == av_[4]
              treatment_value == av_[5]
          IN  (
              IF PyTruthy(config) /\ "metrics" \in DOMAIN config
                 /\ "guardrails" \in DOMAIN config.metrics
                 /\ threshold_key \in DOMAIN config.metrics.guardrails
              THEN guardrail_eval(baseline_value, treatment_value,
                                  [type |-> "dict",
                                   items |-> << <<rule_key,
                                                  config.metrics.guardrails[threshold_key]>> >>])
              ELSE [passed |-> TRUE, message |-> <<"No threshold configured">>]
          )
    \* print_guardrails_analysis(guardrails, config)
      [] op_ = "print_guardrails_analysis" ->
          LET guardrails == av_[1]
              config == av_[2]
          IN  (
              LET control_ci == proportion_ci(guardrails.control.payment_auth.authorized,
                                              guardrails.control.payment_auth.total_attempts,
                                              FDec(5, 2))
                  treatment_ci == proportion_ci(guardrails.treatment.payment_auth.authorized,
                                                guardrails.treatment.payment_auth.total_attempts,
                                                FDec(5, 2))
                  auth == evaluate_guardrail(config, "payment_auth_min_drop_pp",
                                             <<"m", "a", "x", "_", "d", "r", "o", "p", "_", "p", "p">>,
                                             control_ci.rate, treatment_ci.rate)
                  control_mean == guardrails.control.aov.mean
                  treatment_mean == guardrails.treatment.aov.mean
                  aov == evaluate_guardrail(config, "aov_min_drop_pct",
                                            <<"m", "a", "x", "_", "d", "r", "o", "p", "_", "p", "c", "t">>,
                                            control_mean, treatment_mean)
              IN  IF Raised(control_ci) THEN control_ci
                  ELSE IF Raised(treatment_ci) THEN treatment_ci
                  ELSE IF Raised(auth) THEN auth
                  ELSE IF IsNone(control_mean) \/ IsNone(treatment_mean)
                  THEN Raise("TypeError", "unsupported format string passed to NoneType.__format__")
                  ELSE IF Raised(aov) THEN aov
                  ELSE [all_passed |-> all_passed(auth, aov)]
          )
    \* run_stats(text, rows)
      [] op_ = "run_stats" ->
          LET text == av_[1]
              rows == av_[2]
          IN  (
              LET config == load_experiment_config(text)
                  data == warehouse_rows(rows)
                  alpha == IF PyTruthy(config) /\ "alpha" \in DOMAIN config
                           THEN config.alpha ELSE FDec(5, 2)
                  mde   == IF PyTruthy(config) /\ "mde_abs" \in DOMAIN config
                           THEN config.mde_abs ELSE PyNone
                  test_result == print_ccr_analysis(data.variant_counts, alpha)
                  is_significant == FLt(test_result.p_value, alpha)
                  guardrails_passed == print_guardrails_analysis(data.guardrails, config)
                  error == IF Raised(data) THEN data
                           ELSE IF Raised(test_result) THEN test_result
                           ELSE IF Raised(guardrails_passed) THEN guardrails_passed
                           ELSE PyNone
              IN  IF ~IsNone(error)
                  THEN [exit_code |-> 2, recommendation |-> "", error |-> error]
                  ELSE [exit_code |-> exit_status(is_significant, guardrails_passed.all_passed),
                        recommendation |-> print_decision(is_significant,
                                                          guardrails_passed.all_passed, mde),
                        error |-> PyNone,
                        is_significant |-> is_significant,
                        guardrails_passed |-> guardrails_passed.all_passed]
          )
    \* compute_ccr_summary(variant_counts)
      [] op_ = "compute_ccr_summary" ->
          LET variant_counts == av_[1]
          IN  (
              LET test_result == two_proportion_test(variant_counts.control.orders,
                                                     variant_counts.control.adders,
                                                     variant_counts.treatment.orders,
                                                     variant_counts.treatment.adders,
                                                     FDec(5, 2))
              IN  IF Raised(test_result) THEN test_result
                  ELSE [effect_abs |-> test_result.effect_abs,
                        p_value |-> test_result.p_value,
                        significant |-> FLt(test_result.p_value, FDec(5, 2))]
          )
    \* decision(ccr_summary)
      [] op_ = "decision" ->
          LET ccr_summary == av_[1]
          IN  (
              LET effect_abs == FMul(ccr_summary.effect_abs, FInt(100))
                  significant == ccr_summary.significant
              IN  IF significant /\ FLt(FZero(FALSE), effect_abs) THEN "SHIP"
                  ELSE IF significant /\ FLt(effect_abs, FZero(FALSE)) THEN "DO NOT SHIP"
                  ELSE "INCONCLUSIVE"
          )
    \* report(rows)
      [] op_ = "report" ->
          LET rows == av_[1]
          IN  (
              LET data == warehouse_rows(rows)
                  ccr_summary == IF Raised(data) THEN data
                                 ELSE compute_ccr_summary(data.variant_counts)
              IN  IF Raised(ccr_summary) THEN [error |-> ccr_summary]
                  ELSE [error |-> PyNone, ccr_summary |-> ccr_summary,
                        decision |-> decision(ccr_summary)]
          )
    \* run_ccr_test(fetch, alpha)
      [] op_ = "run_ccr_test" ->
          LET fetch == av_[1]
              alpha == av_[2]
          IN  (
              LET failed    == <<FALSE, FInt(1)>>
                  control   == SelectSeq(fetch.rows, LAMBDA r : r[1] = "control")
                  treatment == SelectSeq(fetch.rows, LAMBDA r : r[1] = "treatment")
                  test_result == two_proportion_test(IntOf(control[1][3]),
                                                     IntOf(control[1][2]),
                                                     IntOf(treatment[1][3]),
                                                     IntOf(treatment[1][2]), alpha)
              IN  IF fetch.error THEN failed
                  ELSE IF Len(fetch.rows) < 2 THEN failed
                  ELSE IF control = <<>> \/ treatment = <<>> THEN failed
                  ELSE IF Raised(test_result) THEN failed
                  ELSE <<FLt(test_result.p_value, alpha), test_result.p_value>>
          )
    \* detection_rate(detections, repeats)
      [] op_ = "detection_rate" ->
          LET detections == av_[1]
              repeats == av_[2]
          IN  (
              IF repeats > 0 THEN ITrueDiv(IntOf(detections), IntOf(repeats))
              ELSE FZero(FALSE)
          )

(***************************************************************************)
(* 3. sensitivity.py                                                       *)
(***************************************************************************)

\* Departures from the source, one per operator, against which the
\* properties of section 6 are tried: each must break the property that
\* depends on the operator it replaces.

\* the grid with the uplifts outermost
grid_points_uplifts_first(users_list, uplifts_list) ==
    LET nu == Len(users_list)
        nv == Len(uplifts_list)
    IN  [i \in 1..(nu * nv) |->
            <<users_list[((i - 1) % nu) + 1], uplifts_list[((i - 1) \div nu) + 1]>>]

\* every trial run with the base seed
run_seed_fixed(seed, run_count) == seed

\* the rate as a floor division
detection_rate_floor(detections, repeats) ==
    IF repeats > 0 THEN FInt(detections \div repeats) ELSE FZero(FALSE)

\* the build attempted whatever the generation returned
after_simulation_always_build(success) == "build_warehouse"

\* a failed generation tried again
after_simulation_retry(success) ==
    IF ~success THEN "run_simulation" ELSE "build_warehouse"

\* the loop left at a failed warehouse build (break in place of continue)
after_warehouse_break(success) ==
    IF ~success THEN "aggregate" ELSE "run_ccr_test"

\* range(repeats + 1)
has_next_rep_inclusive(rep, repeats) == rep <= repeats

\* run_ccr_test with detected = p_value <= alpha
run_ccr_test_inclusive(fetch, alpha) ==
    LET failed    == <<FALSE, FInt(1)>>
        control   == SelectSeq(fetch.rows, LAMBDA r : r[1] = "control")
        treatment == SelectSeq(fetch.rows, LAMBDA r : r[1] = "treatment")
        test_result == two_proportion_test(IntOf(control[1][3]),
                                           IntOf(control[1][2]),
                                           IntOf(treatment[1][3]),
                                           IntOf(treatment[1][2]), alpha)
    IN  IF fetch.error THEN failed
        ELSE IF Len(fetch.rows) < 2 THEN failed
        ELSE IF control = <<>> \/ treatment = <<>> THEN failed
        ELSE IF Raised(test_result) THEN failed
        ELSE <<FLe(test_result.p_value, alpha), test_result.p_value>>

\* every tested trial counted as a detection
count_detection_any(detections, detected) == detections + 1

\* a run without a single detection taken for a run without results
no_results_without_detections(results) ==
    \A i \in DOMAIN results : results[i].detections = 0

\* the validation of main without its check of repeats
validate_any_repeats(a) ==
    IF "none" \in DOMAIN a.start_date THEN 1
    ELSE IF a.users_list = <<>> THEN 1
    ELSE IF a.uplifts_list = <<>> THEN 1
    ELSE 0

\* line 424: the grid in iteration order, users outermost
grid_points(users_list, uplifts_list) ==
    LET nu == Len(users_list)
        nv == Len(uplifts_list)
    IN  [i \in 1..(nu * nv) |->
            <<users_list[((i - 1) \div nv) + 1], uplifts_list[((i - 1) % nv) + 1]>>]

\* lines 446-448, 457: the simulated date and the seed of run run_count
sim_date(base_date, run_count) == AddDays(base_date, run_count)
run_seed(seed, run_count) == seed + run_count

\* run_simulation: what the subprocess did decides the returned bool; every
\* exception is caught (lines 227-238)
SimulationEvents == {"ok", "TimeoutExpired", "CalledProcessError", "Exception"}
run_simulation(event) == event = "ok"

\* build_warehouse: True on the straight path, False from the except clause
WarehouseEvents == {"ok", "Exception"}
build_warehouse(event) == event = "ok"

\* run_ccr_test on what conn.execute(...).fetchall() gave: [error, rows],
\* a row being <<variant, adders, orderers>>.  The pair (detected, p_value).
run_ccr_test(fetch, alpha) == Eval("run_ccr_test", <<fetch, alpha>>)

\* line 480-481
count_detection(detections, detected) ==
    IF detected THEN detections + 1 ELSE detections

\* line 488
detection_rate(detections, repeats) == Eval("detection_rate", <<detections, repeats>>)

\* lines 462-466 and 471-475: where the loop body goes after a step
after_simulation(success) == IF ~success THEN "continue" ELSE "build_warehouse"
after_warehouse(success) == IF ~success THEN "continue" ELSE "run_ccr_test"

\* line 442: whether range(repeats) has a next rep
has_next_rep(rep, repeats) == rep < repeats

\* build_warehouse and run_ccr_test call conn.close() on the straight path
\* only (lines 305, 359); nothing closes the connection when the call
\* raised.  The sets of connections a call may leave unclosed: none when it
\* did not raise or raised before duckdb.connect returned, its own when a
\* statement raised after that.
unclosed(owner, raised) == IF raised THEN {{}, {owner}} ELSE {{}}

\* sorted(): a stable insertion of each item in turn, ints compared as
\* ints and floats as floats
PyLess(kind, a, b) == IF kind = "int" THEN a < b ELSE FLt(a, b)

RECURSIVE PyInsert(_, _, _)
PyInsert(kind, s, x) ==
    IF s = <<>> THEN <<x>>
    ELSE IF PyLess(kind, x, Head(s)) THEN <<x>> \o s
    ELSE <<Head(s)>> \o PyInsert(kind, Tail(s), x)

RECURSIVE PySorted(_, _)
PySorted(kind, s) ==
    IF s = <<>> THEN <<>>
    ELSE PyInsert(kind, PySorted(kind, SubSeq(s, 1, Len(s) - 1)), s[Len(s)])

\* create_metadata, lines 153-163, without the timestamp, the power target
\* and the git commit
create_metadata(users_list, uplifts_list, repeats, alpha) ==
    [alpha |-> alpha,
     users_per_day |-> PySorted("int", users_list),
     uplifts |-> PySorted("float", uplifts_list),
     grid_size |-> Len(users_list) * Len(uplifts_list),
     repeats |-> repeats,
     total_simulations |-> Len(users_list) * Len(uplifts_list) * repeats]

\* main, line 686: if not results
no_results(results) == results = <<>>

\* main, lines 689-704: write_results, then json.dump of the metadata
WriteEvents == {"ok", "results_OSError", "metadata_OSError"}
written(event) ==
    IF event = "ok" THEN {"results", "metadata"}
    ELSE IF event = "metadata_OSError" THEN {"results"}
    ELSE {}

\* main, lines 656-672: the exit code of a rejected configuration, 0 if none
validate(a) ==
    IF IsNone(a.start_date) THEN 1
    ELSE IF a.repeats < 1 THEN 1
    ELSE IF a.users_list = <<>> THEN 1
    ELSE IF a.uplifts_list = <<>> THEN 1
    ELSE 0

(***************************************************************************)
(* 4. The state machine of one run of sensitivity.py: main validates the   *)
(*    configuration, run_sensitivity_grid loops over the grid.             *)
(*    pc is the position in the code; trial and outcomes trace the trial   *)
(*    in progress and the finished trials of the current grid point;       *)
(*    generator_calls lists the invocations of src/data/simulate.py.       *)
(*    files holds what main has written; ccr_results tabulates            *)
(*    run_ccr_test, which the trials apply.  temp_dirs holds the run       *)
(*    numbers n whose data_n directory exists under the temporary          *)
(*    directory of line 421 (warehouse_n.duckdb, once build_warehouse has  *)
(*    connected, lies beside data_n and goes when it goes); metadata is    *)
(*    the record written to sensitivity_meta.json; logged lists the        *)
(*    errors main has logged.                                              *)
(***************************************************************************)
VARIABLES args, ccr_results, pc, point, rep, run_count, detections, results,
          trial, outcomes, generator_calls, temp_dirs, files, logged, metadata,
          exit_code, call

gridvars == <<args, ccr_results, pc, point, rep, run_count, detections,
              results, trial, outcomes, generator_calls, temp_dirs, files, logged,
              metadata, exit_code>>
vars == <<args, ccr_results, pc, point, rep, run_count, detections, results,
          trial, outcomes, generator_calls, temp_dirs, files, logged, metadata,
          exit_code, call>>

\* the largest --repeats of the configurations explored
MaxRepeats == 2

StartDates == {PyNone, [y |-> 2023, m |-> 12, d |-> 30],
               [y |-> 2024, m |-> 2, d |-> 27]}
UsersLists == {<<>>, <<1000>>, <<1000, 5000>>}
UpliftsLists == {<<>>, <<FDec(5, 2)>>, <<FZero(FALSE), FDec(5, 2)>>}

\* the command lines explored: every combination of the lists above, four
\* with one parameter out of its range (alpha, days, users per day), a
\* users list with a repeated value, lists given in descending order,
\* two-day simulations of two users a day, and an alpha that is exactly the
\* p-value of 100 of 1000 against 120 of 1000
InRange ==
    [start_date |-> [y |-> 2023, m |-> 12, d |-> 30], days |-> 1,
     users_list |-> <<1000>>, uplifts_list |-> <<FDec(5, 2)>>, repeats |-> 1,
     seed |-> 42, alpha |-> FDec(5, 2)]
Configurations ==
    [start_date : StartDates, days : {1}, users_list : UsersLists,
     uplifts_list : UpliftsLists, repeats : 0..MaxRepeats, seed : {42},
     alpha : {FDec(5, 2)}]
    \cup {[InRange EXCEPT !.alpha = FDec(15, 1)],
          [InRange EXCEPT !.alpha = FZero(FALSE)],
          [InRange EXCEPT !.days = 0],
          [InRange EXCEPT !.users_list = <<0 - 5>>],
          [InRange EXCEPT !.users_list = <<1000, 1000>>],
          [InRange EXCEPT !.users_list = <<5000, 1000>>,
                          !.uplifts_list = <<FDec(5, 2), FZero(FALSE)>>],
          [InRange EXCEPT !.days = 2, !.users_list = <<2>>, !.repeats = 2],
          [InRange EXCEPT !.alpha =
              two_proportion_test(IntOf(100), IntOf(1000), IntOf(120),
                                  IntOf(1000), FDec(5, 2)).p_value]}

\* what the variant query of run_ccr_test may fetch
FetchOutcomes ==
    {[error |-> TRUE, rows |-> <<>>],
     [error |-> FALSE, rows |-> <<>>],
     [error |-> FALSE, rows |-> << <<"control", 1000, 100>> >>],
     [error |-> FALSE, rows |-> << <<"control", 1000, 100>>, <<"holdout", 1000, 100>> >>],
     [error |-> FALSE, rows |-> << <<"control", 10, 5>>, <<"treatment", 10, 12>> >>],
     [error |-> FALSE, rows |-> << <<"control", 0, 0>>, <<"treatment", 10, 1>> >>],
     [error |-> FALSE, rows |-> << <<"control", 1000, 100>>, <<"treatment", 1000, 100>> >>],
     [error |-> FALSE, rows |-> << <<"control", 1000, 100>>, <<"treatment", 1000, 120>> >>],
     [error |-> FALSE, rows |-> << <<"control", 1000, 100>>, <<"treatment", 1000, 150>> >>]}

\* run_ccr_test is a pure function of what was fetched and of alpha:
\* ccr_results holds it, computed once, for each alpha and fetch explored
CcrTable ==
    [a \in {c.alpha : c \in Configurations} |->
        [f \in FetchOutcomes |-> run_ccr_test(f, a)]]

NoTrial == [run |-> 0, date |-> PyNone, seed |-> 0, steps |-> <<>>,
            simulation |-> "", warehouse |-> "", outcome |-> "PENDING",
            fetch |-> PyNone, detected |-> FALSE, p_value |-> PyNone,
            open |-> {}]
NoCall == [fn |-> "", args |-> <<>>, done |-> TRUE, ret |-> PyNone]

GridIdle ==
    /\ point = 0 /\ rep = 0 /\ run_count = 0 /\ detections = 0
    /\ results = <<>> /\ trial = NoTrial /\ outcomes = <<>>
    /\ generator_calls = <<>> /\ temp_dirs = {} /\ files = {}
    /\ logged = <<>>
    /\ metadata = PyNone /\ exit_code = -1

Init ==
    /\ ccr_results = CcrTable
    /\ args \in Configurations
    /\ pc = "main"
    /\ GridIdle
    /\ call = NoCall

CurrentPoint == grid_points(args.users_list, args.uplifts_list)[point]

\* main, lines 656-683: reject the configuration or enter the grid
Main ==
    /\ pc = "main"
    /\ IF validate(args) # 0
       THEN /\ pc' = "exit"
            /\ exit_code' = validate(args)
            /\ logged' = Append(logged, "invalid configuration")
            /\ UNCHANGED <<point, run_count, results>>
       ELSE /\ pc' = "grid_point"
            /\ point' = 1
            /\ run_count' = 0
            /\ results' = <<>>
            /\ UNCHANGED <<exit_code, logged>>
    /\ UNCHANGED <<args, ccr_results, rep, detections, trial, outcomes, generator_calls,
                   temp_dirs, files, metadata, call>>

\* lines 435-440: the next grid point, or the end of the grid, where the
\* with block of line 421 ends and removes the temporary directory
GridPoint ==
    /\ pc = "grid_point"
    /\ IF point > Len(grid_points(args.users_list, args.uplifts_list))
       THEN /\ pc' = "return"
            /\ temp_dirs' = {}
            /\ UNCHANGED <<detections, rep, outcomes>>
       ELSE /\ pc' = "repeat"
            /\ detections' = 0
            /\ rep' = 0
            /\ outcomes' = <<>>
            /\ UNCHANGED temp_dirs
    /\ UNCHANGED <<args, ccr_results, point, run_count, results, trial, generator_calls, files, logged,
                   metadata, exit_code, call>>

\* lines 442-457: the next repeat starts a trial, or the repeats are over
Repeat ==
    /\ pc = "repeat"
    /\ IF has_next_rep(rep, args.repeats)
       THEN /\ run_count' = run_count + 1
            /\ \E date \in {sim_date(args.start_date, run_count + 1)} :
                 trial' = [NoTrial EXCEPT
                              !.run = run_count + 1,
                              !.date = date,
                              !.seed = run_seed(args.seed, run_count + 1)]
            /\ temp_dirs' = temp_dirs \cup {run_count + 1}
            /\ pc' = "run_simulation"
       ELSE /\ pc' = "aggregate"
            /\ UNCHANGED <<run_count, trial, temp_dirs>>
    /\ UNCHANGED <<args, ccr_results, point, rep, detections, results, outcomes,
                   generator_calls, files, logged, metadata, exit_code, call>>

\* lines 460-466
RunSimulation ==
    /\ pc = "run_simulation"
    /\ \E event \in SimulationEvents :
         LET next == after_simulation(run_simulation(event))
             ran  == [trial EXCEPT !.steps = Append(@, "generate"),
                                   !.simulation = event]
         IN  /\ generator_calls' =
                   Append(generator_calls,
                          [run |-> trial.run, date |-> trial.date,
                           days |-> args.days, users |-> CurrentPoint[1],
                           uplift |-> CurrentPoint[2], seed |-> trial.seed])
             /\ IF next = "continue"
                THEN /\ trial' = [ran EXCEPT !.outcome = "FAILED"]
                     /\ outcomes' = Append(outcomes, "FAILED")
                     /\ rep' = rep + 1
                     /\ pc' = "repeat"
                ELSE /\ trial' = ran
                     /\ pc' = next
                     /\ UNCHANGED <<rep, outcomes>>
    /\ UNCHANGED <<args, ccr_results, point, run_count, detections, results,
                   temp_dirs, files, logged, metadata, exit_code, call>>

\* lines 469-475
BuildWarehouse ==
    /\ pc = "build_warehouse"
    /\ \E event \in WarehouseEvents :
       \E open \in unclosed("build_warehouse", event # "ok") :
         LET next == after_warehouse(build_warehouse(event))
             ran  == [trial EXCEPT !.steps = Append(@, "build"),
                                   !.warehouse = event,
                                   !.open = @ \cup open]
         IN  IF next = "continue"
             THEN /\ trial' = [ran EXCEPT !.outcome = "FAILED"]
                  /\ outcomes' = Append(outcomes, "FAILED")
                  /\ rep' = rep + 1
                  /\ pc' = "repeat"
             ELSE /\ trial' = ran
                  /\ pc' = next
                  /\ UNCHANGED <<rep, outcomes>>
    /\ UNCHANGED <<args, ccr_results, point, run_count, detections, results,
                   generator_calls, temp_dirs, files, logged, metadata, exit_code, call>>

\* lines 478-485
RunCcrTest ==
    /\ pc = "run_ccr_test"
    /\ \E fetch \in FetchOutcomes :
       \E returned \in {ccr_results[args.alpha][fetch]} :
       \E open \in unclosed("run_ccr_test", fetch.error) :
         LET detected == returned[1]
             outcome  == IF detected THEN "DETECTED" ELSE "NOT_DETECTED"
         IN  /\ detections' = count_detection(detections, detected)
             /\ trial' = [trial EXCEPT !.steps = Append(@, "test"),
                                       !.fetch = fetch,
                                       !.detected = detected,
                                       !.p_value = returned[2],
                                       !.open = @ \cup open,
                                       !.outcome = outcome]
             /\ outcomes' = Append(outcomes, outcome)
    /\ rep' = rep + 1
    /\ pc' = "repeat"
    /\ UNCHANGED <<args, ccr_results, point, run_count, results, generator_calls,
                   temp_dirs, files, logged, metadata, exit_code, call>>

\* lines 487-499
Aggregate ==
    /\ pc = "aggregate"
    /\ \E rate \in {detection_rate(detections, args.repeats)} :
         results' = Append(results,
                           [users_per_day  |-> CurrentPoint[1],
                            uplift         |-> CurrentPoint[2],
                            repeats        |-> args.repeats,
                            detections     |-> detections,
                            detection_rate |-> rate,
                            alpha          |-> args.alpha])
    /\ point' = point + 1
    /\ pc' = "grid_point"
    /\ UNCHANGED <<args, ccr_results, rep, run_count, detections, trial, outcomes,
                   generator_calls, temp_dirs, files, logged, metadata, exit_code, call>>

\* line 506 and main, lines 686-714: the results file, then the metadata
\* file; an OSError of either write ends main with 1
Return ==
    /\ pc = "return"
    /\ IF no_results(results)
       THEN /\ exit_code' = 1
            /\ logged' = Append(logged, "No results generated - all simulations failed")
            /\ UNCHANGED <<files, metadata>>
       ELSE \E event \in WriteEvents :
               /\ files' = files \cup written(event)
               /\ logged' = IF event = "ok" THEN logged
                            ELSE Append(logged, "Unexpected error")
               /\ metadata' =
                     IF "metadata" \in written(event)
                     THEN create_metadata(args.users_list, args.uplifts_list,
                                          args.repeats, args.alpha)
                     ELSE metadata
               /\ exit_code' = IF event = "ok" THEN 0 ELSE 1
    /\ pc' = "exit"
    /\ UNCHANGED <<args, ccr_results, point, rep, run_count, detections, results, trial,
                   outcomes, generator_calls, temp_dirs, call>>

Next ==
    \/ Main
    \/ GridPoint
    \/ Repeat
    \/ RunSimulation
    \/ BuildWarehouse
    \/ RunCcrTest
    \/ Aggregate
    \/ Return

Spec == Init /\ [][Next]_vars

(***************************************************************************)
(* 6. PROPERTIES OF THE GRID (specification Spec)                          *)
(***************************************************************************)
GridSize == Len(args.users_list) * Len(args.uplifts_list)
FinalOutcomes == {"DETECTED", "NOT_DETECTED", "FAILED"}

\* C1: whatever trials fail (generator timeout or non-zero exit, warehouse
\* build failure, extraction or test failure), run_sensitivity_grid attempts
\* exactly |users_list| x |uplifts_list| x repeats trials and returns
\* normally: every grid point gets all its repeats, and where the grid
\* has returned to main every trial was started and every point reported.
C1_AllTrialsAttempted ==
    /\ pc = "aggregate" => Len(outcomes) = args.repeats
    /\ pc \in {"return", "exit"} /\ validate(args) = 0 =>
          /\ run_count = GridSize * args.repeats
          /\ Len(generator_calls) = GridSize * args.repeats
          /\ Len(results) = GridSize
    /\ pc = "exit" /\ exit_code = 0 =>
          Len(generator_calls) = GridSize * args.repeats

\* a full 2 x 2 x 2 grid has returned although the seventh trial failed,
\* and the eighth trial ran after it
C1_Witness ==
    /\ pc = "return"
    /\ run_count = 8
    /\ outcomes = <<"FAILED", "DETECTED">>
    /\ trial.run = 8

\* C2: the detection_rate reported for a grid point is its detections
\* divided by the configured repeats, detections being the number of the
\* point's trials that completed and were detected; a failed trial adds no
\* detection and does not reduce the denominator.
C2_RateOverConfiguredRepeats ==
    /\ \A i \in DOMAIN results :
          /\ results[i].repeats = args.repeats
          /\ results[i].detection_rate =
                ITrueDiv(IntOf(results[i].detections), IntOf(args.repeats))
    /\ pc \in {"aggregate", "grid_point", "return", "exit"} =>
          detections = Cardinality({k \in DOMAIN outcomes : outcomes[k] = "DETECTED"})
    /\ pc \in {"grid_point", "return", "exit"} /\ results # <<>> =>
          results[Len(results)].detections = detections

\* a point with one failed and one detected trial is reported at 1/2
C2_Witness ==
    /\ pc = "grid_point"
    /\ outcomes = <<"FAILED", "DETECTED">>
    /\ results[Len(results)].detections = 1
    /\ results[Len(results)].detection_rate = FDec(5, 1)

\* C3: run_sensitivity_grid returns exactly one GridResult per
\* (users_per_day, uplift) pair of the declared grid, in the order outer
\* loop over users_list, inner loop over uplifts_list, whichever trials
\* failed.
C3_OneResultPerPointInOrder ==
    /\ \A i \in DOMAIN results :
          LET nv == Len(args.uplifts_list)
          IN  /\ results[i].users_per_day = args.users_list[((i - 1) \div nv) + 1]
              /\ results[i].uplift = args.uplifts_list[((i - 1) % nv) + 1]
    /\ pc \in {"return", "exit"} /\ validate(args) = 0 =>
          Len(results) = GridSize

\* the four results of a 2 x 2 grid, returned after a failed trial
C3_Witness ==
    /\ pc = "return"
    /\ Len(results) = 4
    /\ results[2].users_per_day = 1000
    /\ results[3].users_per_day = 5000
    /\ results[2].uplift = results[4].uplift
    /\ "FAILED" \in {outcomes[k] : k \in DOMAIN outcomes}

\* C4: every trial runs generate, then build/extract, then test: the
\* warehouse build is invoked only after the trial's generation succeeded,
\* the proportion test only after its build succeeded, no step runs twice,
\* and the trial ends in exactly one of DETECTED, NOT_DETECTED, FAILED
\* before the next trial starts.
C4_TrialOrder ==
    [][/\ trial'.steps \in {<<>>, <<"generate">>, <<"generate", "build">>,
                            <<"generate", "build", "test">>}
       /\ Len(trial'.steps) >= 2 => trial'.simulation = "ok"
       /\ Len(trial'.steps) = 3 => trial'.warehouse = "ok"
       /\ trial'.outcome \in FinalOutcomes \cup {"PENDING"}
       /\ trial'.outcome = "PENDING" <=>
             pc' \in {"main", "run_simulation", "build_warehouse", "run_ccr_test"}
                \/ trial'.run = 0
       /\ trial'.outcome \in {"DETECTED", "NOT_DETECTED"} =>
             Len(trial'.steps) = 3
       /\ trial'.run # trial.run =>
             /\ trial.run = 0 \/ trial.outcome \in FinalOutcomes
             /\ trial'.run = trial.run + 1
             /\ trial'.steps = <<>>
       /\ trial'.run = trial.run /\ trial.outcome \in FinalOutcomes =>
             trial' = trial]_vars

\* a trial after the first one has run its three steps and was detected
C4_Witness ==
    /\ trial.run >= 2
    /\ trial.steps = <<"generate", "build", "test">>
    /\ trial.outcome = "DETECTED"

\* C5: a trial whose generator call times out or exits non-zero is recorded
\* as failed and skipped: the generator is invoked exactly once for it
\* (never retried), it adds no detection, and the remaining trials of the
\* grid point still run.
C5_GeneratorFailureSkipsTrial ==
    [][/\ \A i \in DOMAIN generator_calls' : generator_calls'[i].run = i
       /\ pc = "run_simulation"
          /\ trial'.simulation \in {"TimeoutExpired", "CalledProcessError"} =>
             /\ Len(generator_calls') = trial.run
             /\ trial'.outcome = "FAILED"
             /\ trial'.steps = <<"generate">>
             /\ detections' = detections
             /\ pc' = "repeat"
             /\ rep' = rep + 1
       /\ pc = "repeat" /\ rep < args.repeats =>
             pc' = "run_simulation" /\ trial'.run = trial.run + 1
       /\ pc' = "aggregate" => rep' = args.repeats]_vars

\* the generator of the first repeat timed out and the second repeat is due
C5_Witness ==
    /\ pc = "repeat"
    /\ trial.simulation = "TimeoutExpired"
    /\ trial.outcome = "FAILED"
    /\ rep = 1
    /\ args.repeats = 2
    /\ Len(generator_calls) = trial.run

\* C6: the k-th trial of a run, failed trials counted, uses seed
\* base_seed + k and date start_date + k days; the run counter strictly
\* increases and is never reset between grid points, so no two trials of a
\* run share a seed or a date.  Days are counted from 2000-03-01.
C6_UniqueSeedAndDate ==
    [][LET DayNumber(date) ==
               LET y  == IF date.m <= 2 THEN date.y - 1 ELSE date.y
                   mm == IF date.m <= 2 THEN date.m + 9 ELSE date.m - 3
               IN  365 * (y - 2000) + ((y - 2000) \div 4)
                   - ((y - 2000) \div 100) + ((y - 2000) \div 400)
                   + ((153 * mm + 2) \div 5) + date.d - 1
       IN  /\ run_count' >= run_count
           /\ Len(generator_calls') > Len(generator_calls) =>
                 run_count' = Len(generator_calls')
           /\ \A k \in DOMAIN generator_calls' :
                 /\ generator_calls'[k].seed = args.seed + k
                 /\ DayNumber(generator_calls'[k].date)
                       = DayNumber(args.start_date) + k
           /\ \A j, k \in DOMAIN generator_calls' :
                 j # k => /\ generator_calls'[j].seed # generator_calls'[k].seed
                          /\ generator_calls'[j].date # generator_calls'[k].date]_vars

\* the eighth trial of a run started on 2024-02-27 is dated 2024-03-06,
\* and trials before it have failed
C6_Witness ==
    /\ Len(generator_calls) = 8
    /\ generator_calls[8].date = [y |-> 2024, m |-> 3, d |-> 6]
    /\ generator_calls[8].seed = 50
    /\ results[1].detections = 0
    /\ outcomes = <<"FAILED">>

\* C7: in every reachable state of a grid run,
\* 0 <= detections <= trials of the current grid point finished so far
\* <= repeats; hence every GridResult has detections <= repeats and a
\* detection_rate in [0, 1].
C7_DetectionsBounded ==
    /\ 0 <= detections
    /\ detections <= Len(outcomes)
    /\ Len(outcomes) = rep
    /\ pc \notin {"main", "idle"} => Len(outcomes) <= args.repeats
    /\ \A i \in DOMAIN results :
          /\ 0 <= results[i].detections
          /\ results[i].detections <= results[i].repeats
          /\ FLe(FZero(FALSE), results[i].detection_rate)
          /\ FLe(results[i].detection_rate, FInt(1))

\* every repeat of a grid point detected: the bounds are met with equality
C7_Witness ==
    /\ pc = "grid_point"
    /\ args.repeats = 2
    /\ detections = 2
    /\ results[Len(results)].detection_rate = FInt(1)

\* C18: when repeats < 1, or the users list or the uplifts list is empty,
\* or no start date is given, main returns 1 before any trial: the
\* generator is never invoked, and neither the results file nor the
\* metadata file is written.
C18_RejectedBeforeAnyTrial ==
    (\/ IsNone(args.start_date)
     \/ args.repeats < 1
     \/ args.users_list = <<>>
     \/ args.uplifts_list = <<>>) =>
        /\ pc \in {"main", "exit"}
        /\ pc = "exit" => exit_code = 1
        /\ generator_calls = <<>>
        /\ files = {}
        /\ run_count = 0
        /\ trial = NoTrial
        /\ results = <<>>

\* main has returned 1 for --repeats 0 with a date and both lists given
C18_Witness ==
    /\ pc = "exit"
    /\ exit_code = 1
    /\ args.repeats = 0
    /\ ~IsNone(args.start_date)
    /\ args.users_list # <<>>
    /\ args.uplifts_list # <<>>
    /\ files = {}

\* C19: every parameter handed to run_sensitivity_grid by main has been
\* validated as in range: for alpha outside (0,1), days <= 0 or a
\* non-positive users_per_day entry, main rejects the run (returns 1) and
\* no trial is started.
C19_OutOfRangeRejected ==
    (\/ ~(FLt(FZero(FALSE), args.alpha) /\ FLt(args.alpha, FInt(1)))
     \/ args.days <= 0
     \/ \E i \in DOMAIN args.users_list : args.users_list[i] <= 0) =>
        /\ pc \in {"main", "exit"}
        /\ pc = "exit" => exit_code = 1
        /\ generator_calls = <<>>
        /\ trial = NoTrial

\* C20: a validation failure of the proportion test (a zero total,
\* successes above the total, alpha outside (0,1)) within a power-grid
\* trial is surfaced as an error: the trial does not end in one of the
\* ordinary outcomes of a test, DETECTED or NOT_DETECTED.
C20_ValidationFailureSurfaced ==
    LET rows      == trial.fetch.rows
        control   == SelectSeq(rows, LAMBDA r : r[1] = "control")
        treatment == SelectSeq(rows, LAMBDA r : r[1] = "treatment")
        BadArm(r) == r[2] <= 0 \/ r[3] < 0 \/ r[3] > r[2]
    IN  (/\ trial.steps = <<"generate", "build", "test">>
         /\ ~trial.fetch.error
         /\ control # <<>> /\ treatment # <<>>
         /\ \/ BadArm(control[1])
            \/ BadArm(treatment[1])
            \/ ~(FLt(FZero(FALSE), args.alpha) /\ FLt(args.alpha, FInt(1)))) =>
            trial.outcome \notin {"DETECTED", "NOT_DETECTED"}

\* C21: the working storage of a trial (its data directory and warehouse
\* file) is created fresh for that trial and released when the trial
\* ends, whatever its outcome: at the start of any trial, the only working
\* storage that exists is that trial's own.
C21_StorageReleasedPerTrial ==
    pc = "run_simulation" => temp_dirs = {trial.run}

\* C22: for any days >= 1 and any grid, no identifier generated in one
\* trial of a run is generated in another trial of the same run: the
\* user ids of two invocations of the generator, which are built from the
\* simulated date and the user index, never meet.
C22_NoSharedIdentifier ==
    LET Ids(c) == simulated_user_ids(c.date, c.days, c.users)
    IN  args.days >= 1 =>
           \A j, k \in DOMAIN generator_calls :
              j < k => Ids(generator_calls[j]) \cap Ids(generator_calls[k]) = {}

\* C23: the metadata record lists the sorted distinct users_per_day values
\* and the sorted distinct uplift values tested, with grid_size the
\* product of their numbers and total_simulations = grid_size x repeats,
\* which is the number of trials the run attempted, also when an input
\* list holds a value twice.
C23_MetadataMatchesGrid ==
    LET Ascending(kind, s) ==
            \A i \in 1..(Len(s) - 1) : PyLess(kind, s[i], s[i + 1])
        Values(s) == {s[i] : i \in DOMAIN s}
        users   == metadata.users_per_day
        uplifts == metadata.uplifts
    IN  pc = "exit" /\ ~IsNone(metadata) =>
           /\ Ascending("int", users)
           /\ Values(users) = Values(args.users_list)
           /\ Ascending("float", uplifts)
           /\ Values(uplifts) = Values(args.uplifts_list)
           /\ metadata.grid_size = Len(users) * Len(uplifts)
           /\ metadata.total_simulations = metadata.grid_size * args.repeats
           /\ metadata.total_simulations = run_count

\* C26: a trial counts as detected exactly when its extraction found both
\* the control and the treatment arm and the proportion test returned a
\* p_value strictly below alpha; a trial whose p_value equals alpha, whose
\* extraction gave fewer than two arms or lacks the control or the
\* treatment arm, is not detected, and the grid point goes on to its next
\* repeat.
C26_DetectedIffBelowAlpha ==
    LET rows      == trial.fetch.rows
        control   == SelectSeq(rows, LAMBDA r : r[1] = "control")
        treatment == SelectSeq(rows, LAMBDA r : r[1] = "treatment")
        found     == ~trial.fetch.error /\ Len(rows) >= 2
                     /\ control # <<>> /\ treatment # <<>>
        BadArm(r) == r[2] <= 0 \/ r[3] < 0 \/ r[3] > r[2]
        tested    == /\ found
                     /\ ~BadArm(control[1]) /\ ~BadArm(treatment[1])
                     /\ FLt(FZero(FALSE), args.alpha) /\ FLt(args.alpha, FInt(1))
    IN  trial.steps = <<"generate", "build", "test">> =>
           /\ trial.detected <=> tested /\ FLt(trial.p_value, args.alpha)
           /\ trial.outcome = IF trial.detected THEN "DETECTED" ELSE "NOT_DETECTED"
           /\ pc = "repeat" /\ rep > 0 =>
                 /\ rep = Len(outcomes)
                 /\ outcomes[rep] = trial.outcome

\* a test whose p_value is exactly alpha: not detected, and the loop is at
\* its next repeat
C26_Witness ==
    /\ pc = "repeat"
    /\ trial.steps = <<"generate", "build", "test">>
    /\ trial.fetch.rows = << <<"control", 1000, 100>>, <<"treatment", 1000, 120>> >>
    /\ trial.p_value = args.alpha
    /\ ~trial.detected
    /\ trial.outcome = "NOT_DETECTED"

\* C27: the detection counter starts at 0 for each grid point and only a
\* detected trial of that point increments it, by one; the GridResult of a
\* point is appended once, with the counter of that point, and a
\* GridResult already in the result list is never changed by later trials
\* or later points.
C27_CounterAndResultsFramed ==
    [][/\ pc = "grid_point" /\ pc' = "repeat" => detections' = 0
       /\ detections' # detections =>
             \/ pc = "grid_point" /\ detections' = 0
             \/ /\ pc = "run_ccr_test"
                /\ trial'.detected
                /\ trial'.run = run_count
                /\ detections' = detections + 1
       /\ pc = "run_ccr_test" /\ ~trial'.detected => detections' = detections
       /\ \A i \in DOMAIN results : i \in DOMAIN results' /\ results'[i] = results[i]
       /\ Len(results') # Len(results) =>
             /\ pc = "aggregate"
             /\ Len(results') = Len(results) + 1
             /\ results'[Len(results')].users_per_day = CurrentPoint[1]
             /\ results'[Len(results')].uplift = CurrentPoint[2]
             /\ results'[Len(results')].detections = detections]_vars

\* a second point without detections reported after a first with one: the
\* first GridResult still holds its own count
C27_Witness ==
    /\ pc = "grid_point"
    /\ Len(results) = 2
    /\ results[1].detections = 1
    /\ results[2].detections = 0
    /\ detections = 0

\* C28: a grid point all of whose trials fail still yields a GridResult,
\* with detections = 0 and detection_rate = 0; the result list of a valid,
\* non-empty grid is therefore never empty when the grid returns, main
\* never takes its 'all simulations failed' exit, and, also when every
\* trial of the grid failed, it writes the results and the metadata and
\* returns 0, short of an error of the writes themselves.
C28_AllFailedStillReported ==
    LET AllFailed == \A k \in DOMAIN outcomes : outcomes[k] = "FAILED"
    IN  /\ pc = "grid_point" /\ results # <<>> /\ AllFailed =>
              /\ Len(results) = point - 1
              /\ results[Len(results)].detections = 0
              /\ results[Len(results)].detection_rate = FZero(FALSE)
        /\ pc \in {"return", "exit"} /\ validate(args) = 0 =>
              /\ results # <<>>
              /\ Len(results) = GridSize
        /\ \A i \in DOMAIN logged :
              logged[i] # "No results generated - all simulations failed"
        /\ pc = "exit" /\ validate(args) = 0 /\ logged = <<>> =>
              /\ files = {"results", "metadata"}
              /\ exit_code = 0

\* a grid of four points without a single detection, the trials of the
\* last point all failed: main has written both files and returned 0
C28_Witness ==
    /\ pc = "exit"
    /\ exit_code = 0
    /\ files = {"results", "metadata"}
    /\ run_count = 8
    /\ Len(results) = 4
    /\ \A i \in DOMAIN results :
          results[i].detections = 0 /\ results[i].detection_rate = FZero(FALSE)
    /\ outcomes = <<"FAILED", "FAILED">>
    /\ trial.outcome = "FAILED"

\* C29: every analytic-store connection opened during a trial, by
\* build_warehouse or by run_ccr_test, has been closed when the trial ends,
\* also when the build or the query raised.
C29_ConnectionsClosed ==
    trial.outcome \in FinalOutcomes => trial.open = {}

(***************************************************************************)
(* 5. Calls of the functions of stats_framework.py on their own: the       *)
(*    arguments are drawn at the start, the call computes the result.      *)
(*    A float argument of guardrail_eval is written as the decimal literal *)
(*    [n, k], n / 10^k, which the call converts as Python reads it.        *)
(***************************************************************************)
\* the largest success count and total of a two_proportion_test call
MaxCount == 2

GuardrailValues ==
    {Lit(92, 2), Lit(917, 3), Lit(5, 1), Lit(25, 2), Lit(0, 0), Lit(100, 0),
     Lit(103, 0), Lit(1, 0)}
GuardrailThresholds ==
    {Lit(3, 3), Lit(25, 2), Lit(3, 0), Lit(50, 0), Lit(0, 0), PyNone}
GuardrailKeys ==
    {<<"m", "a", "x", "_", "d", "r", "o", "p", "_", "p", "p">>,
     <<"m", "a", "x", "_", "d", "r", "o", "p", "_", "p", "c", "t">>,
     <<"m", "a", "x", "_", "i", "n", "c", "r", "e", "a", "s", "e", "_", "p", "p">>,
     <<"m", "a", "x", "_", "i", "n", "c", "r", "e", "a", "s", "e", "_", "m", "s">>,
     <<"m", "a", "x", "_", "i", "n", "c", "r", "e", "a", "s", "e", "_", "p", "c", "t">>,
     <<"m", "a", "x", "_", "d", "r", "o", "p", "_", "p", "p", "_", "s", "t", "r", "i", "c", "t">>,
     <<"m", "i", "n", "_", "r", "i", "s", "e">>}
ItemDropPp(th) == <<<<"m", "a", "x", "_", "d", "r", "o", "p", "_", "p", "p">>, th>>
ItemIncreasePp(th) ==
    <<<<"m", "a", "x", "_", "i", "n", "c", "r", "e", "a", "s", "e", "_", "p", "p">>, th>>
ItemMinRise(th) == <<<<"m", "i", "n", "_", "r", "i", "s", "e">>, th>>
\* the rules: every key with every threshold, an empty dict, a list of
\* pairs, and dicts of several keys
GuardrailRules ==
    {[type |-> "dict", items |-> << <<k, th>> >>] :
        k \in GuardrailKeys, th \in GuardrailThresholds}
    \cup {[type |-> "dict", items |-> <<>>],
          [type |-> "list", items |-> << <<<<"m", "a", "x", "_", "d", "r", "o", "p", "_", "p", "p">>, Lit(3, 3)>> >>],
          [type |-> "dict", items |-> <<ItemDropPp(Lit(3, 3)), ItemIncreasePp(Lit(25, 2))>>],
          [type |-> "dict", items |-> <<ItemIncreasePp(Lit(25, 2)), ItemDropPp(Lit(3, 3))>>],
          [type |-> "dict", items |-> <<ItemMinRise(Lit(50, 0)), ItemDropPp(Lit(3, 3))>>],
          [type |-> "dict", items |-> <<ItemDropPp(Lit(3, 3)), ItemMinRise(Lit(50, 0))>>],
          [type |-> "dict", items |-> <<ItemDropPp(Lit(25, 2)), ItemIncreasePp(PyNone)>>],
          [type |-> "dict", items |-> <<ItemDropPp(PyNone), ItemIncreasePp(Lit(25, 2))>>],
          [type |-> "dict", items |-> <<ItemDropPp(Lit(3, 3)), ItemMinRise(Lit(50, 0)),
                                        ItemIncreasePp(Lit(25, 2))>>]}
GuardrailCalls ==
    {[fn |-> "guardrail_eval", args |-> <<b, t, r>>, done |-> FALSE,
      ret |-> PyNone] :
        b \in GuardrailValues, t \in GuardrailValues, r \in GuardrailRules}

Counts == {IntOf(n) : n \in (0 - 1)..MaxCount}
\* totals beyond the precision and beyond the range of a float
BigTotals == {IntPow2(110), IntPow2(1024)}
Totals == Counts \cup BigTotals
Alphas ==
    {FDec(5, 2), FDec(1, 2), FDec(1, 1), FMinSubnormal, FZero(FALSE),
     FInt(1), FDec(0 - 5, 2), FDec(15, 1)}
TwoProportionCalls ==
    {[fn |-> "two_proportion_test", args |-> <<sa, ta, sb, tb, al>>,
      done |-> FALSE, ret |-> PyNone] :
        sa \in Counts, ta \in Counts, sb \in Counts, tb \in Counts,
        al \in {FDec(5, 2)}}
    \cup
    {[fn |-> "two_proportion_test", args |-> <<sa, ta, sb, tb, FDec(5, 2)>>,
      done |-> FALSE, ret |-> PyNone] :
        sa \in {IntOf(0), IntOf(1)}, ta \in {IntOf(1)} \cup BigTotals,
        sb \in {IntOf(0), IntOf(1)}, tb \in BigTotals}
    \cup
    {[fn |-> "two_proportion_test",
      args |-> <<IntOf(1), IntOf(2), sb, IntOf(2), al>>,
      done |-> FALSE, ret |-> PyNone] :
        sb \in {IntOf(1), IntOf(2)}, al \in Alphas}

ProportionCiCalls ==
    {[fn |-> "proportion_ci", args |-> <<su, to, al>>, done |-> FALSE,
      ret |-> PyNone] :
        su \in Counts, to \in Totals, al \in {FDec(5, 2)}}
    \cup
    {[fn |-> "proportion_ci", args |-> <<su, IntOf(2), al>>, done |-> FALSE,
      ret |-> PyNone] :
        su \in {IntOf(1), IntOf(2)}, al \in Alphas}

\* the longest values sequence of a mean_ci call
MaxLen == 3

\* an item of values: a number as its literal, or PyNone for a str that
\* float() rejects
MeanItems == {Lit(2605, 1), Lit(1, 1), Lit(0 - 3, 0), PyNone}
MeanValues ==
    {[type |-> "list", items |-> xs] :
        xs \in UNION {[1..n -> MeanItems] : n \in 0..MaxLen}}
    \cup {[type |-> "tuple", items |-> <<>>],
          [type |-> "tuple", items |-> <<Lit(250, 0), Lit(2605, 1), Lit(255, 0)>>]}
MeanAlphas ==
    {FDec(5, 2), FDec(1, 1), FMinSubnormal, FZero(FALSE), FDec(15, 1)}
MeanCiCalls ==
    {[fn |-> "mean_ci", args |-> <<vs, al>>, done |-> FALSE, ret |-> PyNone] :
        vs \in MeanValues, al \in MeanAlphas}

\* the processes simulate.py can run in: the entropy of os.urandom and the
\* hash seed of str differ from one process to the next
Environments == [entropy : {1, 2}, hash_seed : {0, 1}]

\* simulate.py --start .. --days .. --users .. --uplift .. --seed ..
\* --output .., to be run twice: ret collects the dataset of each run
SimulateCalls ==
    {[fn |-> "simulate", args |-> <<start, days, users, uplift, seed, "out">>,
      done |-> FALSE, ret |-> <<>>] :
        start \in {[y |-> 2023, m |-> 12, d |-> 31]}, days \in {1, 2},
        users \in {1, 2, 3}, uplift \in {Lit(0, 0), Lit(5, 2)},
        seed \in {42, 43}}

\* the rows of marts.fct_experiments: orders and adders of control and of
\* treatment
CcrRows(c) ==
    [control |-> [orders |-> c[1], adders |-> c[2]],
     treatment |-> [orders |-> c[3], adders |-> c[4]]]

\* a significant rise and a significant fall
SignificantCounts == {CcrRows(<<100, 1000, 150, 1000>>), CcrRows(<<150, 1000, 100, 1000>>)}

\* no effect, a small rise, a variant without adders
OtherCounts ==
    {CcrRows(<<100, 1000, 100, 1000>>), CcrRows(<<100, 1000, 110, 1000>>),
     CcrRows(<<0, 0, 10, 100>>)}

\* the guardrail rows: payment authorizations and mean order values
GuardrailRow(a, v) ==
    [control |-> [payment_auth |-> [authorized |-> a[1], total_attempts |-> a[2]],
                  aov |-> [mean |-> v[1]]],
     treatment |-> [payment_auth |-> [authorized |-> a[3], total_attempts |-> a[4]],
                    aov |-> [mean |-> v[2]]]]

\* both metrics steady
SteadyRows == GuardrailRow(<<920, 1000, 917, 1000>>, <<Lit(100, 0), Lit(103, 0)>>)

\* steady rows, a drop of the authorization rate, a drop of the mean order
\* value, no payment attempt, a zero and a missing mean order value
GuardrailRows ==
    {SteadyRows,
     GuardrailRow(<<920, 1000, 900, 1000>>, <<Lit(100, 0), Lit(103, 0)>>),
     GuardrailRow(<<920, 1000, 917, 1000>>, <<Lit(100, 0), Lit(90, 0)>>),
     GuardrailRow(<<0, 0, 9, 10>>, <<Lit(100, 0), Lit(103, 0)>>),
     GuardrailRow(<<920, 1000, 917, 1000>>, <<Lit(0, 0), Lit(5, 0)>>),
     GuardrailRow(<<920, 1000, 917, 1000>>, <<PyNone, Lit(100, 0)>>)}

\* what most_recent_date, get_variant_counts_for_ccr and get_guardrails
\* return, or what they raise
WarehouseData ==
    [variant_counts : SignificantCounts, guardrails : GuardrailRows]
    \cup [variant_counts : OtherCounts, guardrails : {SteadyRows}]
    \cup {Raise("IOException", "Cannot open file warehouse.duckdb")}

\* configs/experiment.yml as load_experiment_config reads it: no file,
\* no key read by run_stats, alpha and mde_abs with or without thresholds,
\* an alpha below the 0.05 of save_results, an alpha out of range
ExperimentConfigs ==
    {PyNone,
     [name |-> "checkout"],
     [alpha |-> Lit(5, 2), mde_abs |-> Lit(1, 2),
      metrics |-> [guardrails |-> [payment_auth_min_drop_pp |-> Lit(1, 2),
                                   aov_min_drop_pct |-> Lit(5, 0)]]],
     [metrics |-> [guardrails |-> [payment_auth_min_drop_pp |-> Lit(1, 2)]]],
     [metrics |-> [guardrails |-> [aov_min_drop_pct |-> Lit(5, 0)]]],
     [metrics |-> [primary |-> "ccr"]],
     [alpha |-> Lit(1, 2)],
     [alpha |-> Lit(15, 1)]}

\* run_stats.py and save_results.py with report.py on the same warehouse
AnalysisCalls ==
    {[fn |-> "analysis", args |-> <<config, data>>, done |-> FALSE,
      ret |-> [run_stats |-> PyNone, report |-> PyNone]] :
        config \in ExperimentConfigs, data \in WarehouseData}

InitStats ==
    /\ call \in GuardrailCalls \cup TwoProportionCalls \cup ProportionCiCalls
                \cup MeanCiCalls \cup SimulateCalls \cup AnalysisCalls
    /\ ccr_results = <<>>
    /\ args = PyNone
    /\ pc = "idle"
    /\ GridIdle

ParsedRule(rule) ==
    [rule EXCEPT !.items =
        [i \in 1..Len(rule.items) |->
            <<rule.items[i][1], FloatOf(rule.items[i][2])>>]]

CallGuardrailEval ==
    /\ call.fn = "guardrail_eval"
    /\ ~call.done
    /\ call' = [call EXCEPT
                  !.done = TRUE,
                  !.ret = guardrail_eval(FloatOf(call.args[1]),
                                         FloatOf(call.args[2]),
                                         ParsedRule(call.args[3]))]
    /\ UNCHANGED gridvars

CallTwoProportionTest ==
    /\ call.fn = "two_proportion_test"
    /\ ~call.done
    /\ call' = [call EXCEPT
                  !.done = TRUE,
                  !.ret = two_proportion_test(call.args[1], call.args[2],
                                              call.args[3], call.args[4],
                                              call.args[5])]
    /\ UNCHANGED gridvars

CallProportionCi ==
    /\ call.fn = "proportion_ci"
    /\ ~call.done
    /\ call' = [call EXCEPT
                  !.done = TRUE,
                  !.ret = proportion_ci(call.args[1], call.args[2],
                                        call.args[3])]
    /\ UNCHANGED gridvars

\* the values as Python holds them
ParsedValues(values) ==
    [values EXCEPT !.items =
        [i \in 1..Len(values.items) |-> FloatOf(values.items[i])]]

CallMeanCi ==
    /\ call.fn = "mean_ci"
    /\ ~call.done
    /\ call' = [call EXCEPT
                  !.done = TRUE,
                  !.ret = mean_ci(ParsedValues(call.args[1]), call.args[2])]
    /\ UNCHANGED gridvars

\* one run of simulate.py in some process; the call is done after two runs
CallSimulate ==
    /\ call.fn = "simulate"
    /\ ~call.done
    /\ \E env \in Environments :
          call' = [call EXCEPT
                     !.ret = Append(@, simulate_main(call.args, env)),
                     !.done = Len(call.ret) = 1]
    /\ UNCHANGED gridvars

\* python src/analysis/run_stats.py
CallRunStats ==
    /\ call.fn = "analysis"
    /\ IsNone(call.ret.run_stats)
    /\ call' = [call EXCEPT
                  !.ret.run_stats = run_stats(call.args[1], call.args[2])]
    /\ UNCHANGED gridvars

\* python src/analysis/save_results.py, then python src/report.py, once
\* run_stats has run
CallReport ==
    /\ call.fn = "analysis"
    /\ ~IsNone(call.ret.run_stats)
    /\ IsNone(call.ret.report)
    /\ call' = [call EXCEPT !.ret.report = report(call.args[2]), !.done = TRUE]
    /\ UNCHANGED gridvars

NextStats ==
    \/ CallRunStats
    \/ CallReport
    \/ CallGuardrailEval
    \/ CallTwoProportionTest
    \/ CallProportionCi
    \/ CallMeanCi
    \/ CallSimulate

SpecStats == InitStats /\ [][NextStats]_vars

(***************************************************************************)
(* 7. PROPERTIES OF THE FUNCTIONS (specification SpecStats)                *)
(***************************************************************************)
\* a finished call of fn
Done(fn) == call.fn = fn /\ call.done

\* the rule of a guardrail_eval call as Python holds it, what the scan of
\* its keys selects, and whether the call returned a verdict with a delta
CallRule == ParsedRule(call.args[3])
CallKind == RuleScan(CallRule.items).rule_type
CallThreshold == RuleScan(CallRule.items).threshold
CallDelta ==
    GuardrailDelta(CallKind, FloatOf(call.args[1]), FloatOf(call.args[2]))
Verdict == Done("guardrail_eval") /\ "passed" \in DOMAIN call.ret
ZeroBaseline ==
    CallKind \in {"drop_pct", "increase_pct"} /\ call.args[1].n = 0

\* C8: a guardrail passes exactly when the computed delta is at or below
\* the threshold, the bound being inclusive: a delta exactly equal to the
\* threshold passes, as in guardrail_eval(0.92, 0.917, {"max_drop_pp":
\* 0.003}).  The exact delta is that of the decimal literals of the call,
\* in thousandths.
C8_InclusiveThreshold ==
    LET Milli(lit) == lit.n * (10 ^ (3 - lit.k))
        b  == Milli(call.args[1])
        t  == Milli(call.args[2])
        th == Milli(RuleScan(call.args[3].items).threshold)
        d  == IF CallKind \in {"drop_pp", "drop_pct"} THEN b - t ELSE t - b
        at_threshold ==
            IF CallKind \in {"drop_pct", "increase_pct"}
            THEN /\ d >= 0
                 /\ b > 0
                 /\ BigMul(BigOfNat(d), BigOfNat(100000))
                       = BigMul(BigOfNat(th), BigOfNat(b))
            ELSE d = th
    IN  Verdict /\ ~ZeroBaseline =>
           /\ call.ret.passed <=> FLe(CallDelta, CallThreshold)
           /\ at_threshold => call.ret.passed

\* C9: two_proportion_test raises a validation error when a total is not
\* positive, a success count is negative or above its total, or alpha is
\* not in (0,1), and returns a TestResult, never raising, for every other
\* input.
C9_RaisesOnlyOnInvalidInput ==
    LET successes_a == call.args[1]
        total_a     == call.args[2]
        successes_b == call.args[3]
        total_b     == call.args[4]
        alpha       == call.args[5]
        invalid ==
            \/ ISign(total_a) <= 0 \/ ISign(total_b) <= 0
            \/ ISign(successes_a) < 0 \/ ISign(successes_b) < 0
            \/ ICmp(successes_a, total_a) > 0
            \/ ICmp(successes_b, total_b) > 0
            \/ ~(FLt(FZero(FALSE), alpha) /\ FLt(alpha, FInt(1)))
    IN  Done("two_proportion_test") =>
           /\ invalid => Raised(call.ret) /\ call.ret.exc = "ValueError"
           /\ ~invalid => ~Raised(call.ret)

\* C10: every returned TestResult has p_value in [0, 1], and p_value = 1
\* exactly when effect_abs = 0.
C10_PValueOneIffNoEffect ==
    Done("two_proportion_test") /\ ~Raised(call.ret) =>
       /\ FLe(FZero(FALSE), call.ret.p_value)
       /\ FLe(call.ret.p_value, FInt(1))
       /\ FEq(call.ret.p_value, FInt(1)) <=> FIsZero(call.ret.effect_abs)

\* C11: for valid arguments, swapping arm A and arm B in
\* two_proportion_test negates effect_abs, leaves p_value unchanged and
\* maps [ci_low, ci_high] to [-ci_high, -ci_low]; the swapped call raises
\* exactly when the call does.
C11_SwapSymmetry ==
    LET swapped == two_proportion_test(call.args[3], call.args[4],
                                       call.args[1], call.args[2],
                                       call.args[5])
    IN  Done("two_proportion_test") =>
           /\ Raised(swapped) <=> Raised(call.ret)
           /\ ~Raised(call.ret) =>
                 /\ FEq(swapped.effect_abs, FNeg(call.ret.effect_abs))
                 /\ swapped.p_value = call.ret.p_value
                 /\ FEq(swapped.ci_low, FNeg(call.ret.ci_high))
                 /\ FEq(swapped.ci_high, FNeg(call.ret.ci_low))

\* a result for 1 of 2 against 2 of 2: an effect of one half
C11_Witness ==
    /\ Done("two_proportion_test")
    /\ call.args = <<IntOf(1), IntOf(2), IntOf(2), IntOf(2), FDec(5, 2)>>
    /\ ~Raised(call.ret)
    /\ call.ret.effect_abs = FDec(5, 1)
    /\ FLt(call.ret.p_value, FInt(1))

\* C12: for every valid (successes, total, alpha), proportion_ci returns
\* rate = successes / total with 0 <= ci_low <= rate <= ci_high <= 1, and
\* it raises on the invalid-input conditions of two_proportion_test: a
\* total that is not positive, successes negative or above the total,
\* alpha outside (0,1).
C12_ProportionInterval ==
    LET successes == call.args[1]
        total     == call.args[2]
        alpha     == call.args[3]
        invalid ==
            \/ ISign(total) <= 0
            \/ ISign(successes) < 0
            \/ ICmp(successes, total) > 0
            \/ ~(FLt(FZero(FALSE), alpha) /\ FLt(alpha, FInt(1)))
    IN  Done("proportion_ci") =>
           /\ invalid => Raised(call.ret) /\ call.ret.exc = "ValueError"
           /\ ~invalid =>
                 /\ ~Raised(call.ret)
                 /\ call.ret.rate = ITrueDiv(successes, total)
                 /\ FLe(FZero(FALSE), call.ret.ci_low)
                 /\ FLe(call.ret.ci_low, call.ret.rate)
                 /\ FLe(call.ret.rate, call.ret.ci_high)
                 /\ FLe(call.ret.ci_high, FInt(1))

\* C13 as stated: every (passed, message) pair returned by guardrail_eval
\* has a message that carries the numeric delta, both raw values, the
\* threshold and a PASS/FAIL tag, the tag being PASS exactly when passed is
\* true.
C13_EveryMessageCarriesAll ==
    LET w == GuardrailWords(CallKind)
        m == call.ret.message
    IN  Verdict =>
           /\ Len(m) = 14
           /\ m[2] = FFormat(CallDelta, w.places)
           /\ m[5] = FFormat(FloatOf(call.args[1]), w.places)
           /\ m[8] = FFormat(FloatOf(call.args[2]), w.places)
           /\ m[11] = CallThreshold
           /\ m[14] = IF call.ret.passed THEN "PASS" ELSE "FAIL"

\* C13 as the code has it: the message of every pair returned for a
\* computed delta carries the delta, both raw values, the threshold and
\* the tag, PASS exactly when passed; the pair returned for a zero baseline
\* under a relative rule is passed = false with a message that carries
\* none of them.
C13_MessageCarriesAllButZeroBaseline ==
    LET w == GuardrailWords(CallKind)
        m == call.ret.message
    IN  Verdict =>
           IF ZeroBaseline
           THEN /\ ~call.ret.passed
                /\ Len(m) = 1
                /\ m[1] \in {"Cannot compute percent drop with baseline = 0",
                             "Cannot compute percent increase with baseline = 0"}
           ELSE /\ Len(m) = 14
                /\ m[2] = FFormat(CallDelta, w.places)
                /\ m[5] = FFormat(FloatOf(call.args[1]), w.places)
                /\ m[8] = FFormat(FloatOf(call.args[2]), w.places)
                /\ m[11] = CallThreshold
                /\ m[14] = IF call.ret.passed THEN "PASS" ELSE "FAIL"

\* a failed verdict with its tag: 0.5 against 0.25 under max_drop_pp 0.003
C13_Witness ==
    /\ Verdict
    /\ call.args[1] = Lit(5, 1)
    /\ call.args[2] = Lit(25, 2)
    /\ call.args[3] = [type |-> "dict", items |-> <<ItemDropPp(Lit(3, 3))>>]
    /\ ~call.ret.passed
    /\ call.ret.message[14] = "FAIL"
    /\ call.ret.message[11] = FDec(3, 3)

\* C14: for drop_pct and increase_pct with baseline_value 0, guardrail_eval
\* returns passed = false with an explanatory message instead of raising,
\* whatever the treatment value and the threshold; drop_pp, increase_pp
\* and increase_ms are unaffected by a zero baseline: the delta is
\* computed and compared as for any other baseline.
C14_ZeroBaseline ==
    Done("guardrail_eval") /\ call.args[1].n = 0
    /\ CallRule.type = "dict" /\ CallKind # "None" /\ ~IsNone(CallThreshold) =>
       /\ ~Raised(call.ret)
       /\ IF CallKind \in {"drop_pct", "increase_pct"}
          THEN /\ ~call.ret.passed
               /\ call.ret.message
                     = <<IF CallKind = "drop_pct"
                         THEN "Cannot compute percent drop with baseline = 0"
                         ELSE "Cannot compute percent increase with baseline = 0">>
          ELSE /\ call.ret.passed <=> FLe(CallDelta, CallThreshold)
               /\ Len(call.ret.message) = 14
               /\ call.ret.message[14]
                     = IF FLe(CallDelta, CallThreshold) THEN "PASS" ELSE "FAIL"

\* max_increase_pct on a zero baseline with a generous threshold
C14_Witness ==
    /\ Verdict
    /\ call.args[1] = Lit(0, 0)
    /\ call.args[2] = Lit(1, 0)
    /\ CallKind = "increase_pct"
    /\ CallThreshold = FInt(50)
    /\ ~call.ret.passed
    /\ Len(call.ret.message) = 1

\* C15: when a rule holds several keys, the rule kind and the threshold
\* used are both those of the last key, in mapping order, that starts with
\* one of the five recognized prefixes; keys that match no prefix do not
\* change the selection wherever they occur.
C15_LastRecognizedKeyWins ==
    LET items == CallRule.items
        Recognized(key) ==
            \E j \in 1..Len(RuleKinds) : StartsWith(key, RuleKinds[j][1])
        hit  == {i \in DOMAIN items : Recognized(items[i][1])}
        last == CHOOSE i \in hit : \A j \in hit : j <= i
        kind == KeyRuleType(items[last][1])
        w    == GuardrailWords(kind)
        delta == GuardrailDelta(kind, FloatOf(call.args[1]),
                                FloatOf(call.args[2]))
    IN  Done("guardrail_eval") /\ CallRule.type = "dict" /\ hit # {} =>
           IF IsNone(items[last][2]) THEN Raised(call.ret)
           ELSE IF kind \in {"drop_pct", "increase_pct"} /\ call.args[1].n = 0
           THEN /\ ~Raised(call.ret)
                /\ call.ret.message
                      = <<IF kind = "drop_pct"
                          THEN "Cannot compute percent drop with baseline = 0"
                          ELSE "Cannot compute percent increase with baseline = 0">>
           ELSE /\ ~Raised(call.ret)
                /\ call.ret.passed <=> FLe(delta, items[last][2])
                /\ call.ret.message[1] = w.verb
                /\ call.ret.message[3] = w.unit
                /\ call.ret.message[11] = items[last][2]

\* max_drop_pp 0.003, then an unrecognized key, then max_increase_pp 0.25:
\* the verdict is the one of the increase
C15_Witness ==
    /\ Verdict
    /\ call.args[1] = Lit(5, 1)
    /\ call.args[2] = Lit(25, 2)
    /\ call.args[3].items = <<ItemDropPp(Lit(3, 3)), ItemMinRise(Lit(50, 0)),
                              ItemIncreasePp(Lit(25, 2))>>
    /\ call.ret.passed
    /\ call.ret.message[1] = "Increase of "
    /\ call.ret.message[11] = FDec(25, 2)

\* C16: guardrail_eval raises a validation error, and returns no verdict,
\* when the rule is empty, is not a mapping, or has no key with a
\* recognized prefix; it also raises when the selected key carries no
\* threshold value.  For every other rule it returns a verdict.
C16_UnusableRuleRaises ==
    LET rule == call.args[3]
        Recognized(key) ==
            \E j \in 1..Len(RuleKinds) : StartsWith(key, RuleKinds[j][1])
        hit  == {i \in DOMAIN rule.items : Recognized(rule.items[i][1])}
        last == CHOOSE i \in hit : \A j \in hit : j <= i
        unusable ==
            \/ rule.items = <<>>
            \/ rule.type # "dict"
            \/ hit = {}
            \/ IsNone(rule.items[last][2])
    IN  Done("guardrail_eval") =>
           IF unusable
           THEN /\ Raised(call.ret)
                /\ call.ret.exc = "ValueError"
                /\ "passed" \notin DOMAIN call.ret
           ELSE ~Raised(call.ret) /\ "passed" \in DOMAIN call.ret

\* a rule whose only key, min_rise, has no recognized prefix
C16_Witness ==
    /\ Done("guardrail_eval")
    /\ call.args[3] = [type |-> "dict", items |-> <<ItemMinRise(Lit(3, 0))>>]
    /\ Raised(call.ret)
    /\ call.ret.exc = "ValueError"

\* C17: mean_ci raises for an empty sequence and for a single value, and
\* for every sequence of at least two numeric values with alpha in (0,1)
\* it returns ci_low <= mean <= ci_high; its single-value branch, which
\* returns a zero-width interval, is never taken.
C17_MeanInterval ==
    LET items == call.args[1].items
        alpha == call.args[2]
    IN  Done("mean_ci") =>
           /\ Len(items) < 2 =>
                 Raised(call.ret) /\ call.ret.exc = "ValueError"
           /\ (/\ Len(items) >= 2
               /\ \A i \in DOMAIN items : ~IsNone(items[i])
               /\ FLt(FZero(FALSE), alpha) /\ FLt(alpha, FInt(1))) =>
                 /\ ~Raised(call.ret)
                 /\ FLe(call.ret.ci_low, call.ret.mean)
                 /\ FLe(call.ret.mean, call.ret.ci_high)
           /\ ~Raised(call.ret) => call.ret.branch # "single value"

\* C24: the generator is deterministic: two runs with identical date, days,
\* users per day, uplift and seed produce identical datasets, and every file
\* is written under the output location.
C24_GeneratorDeterministic ==
    call.fn = "simulate" /\ call.done =>
        /\ call.ret[1] = call.ret[2]
        /\ \A r \in 1..2 : \A f \in call.ret[r] : f.path[1] = call.args[6]

C30_DecisionsAgree ==
    /\ call.fn = "analysis"
    /\ call.done
    /\ IsNone(call.ret.run_stats.error)
    /\ IsNone(call.ret.report.error)
    /\ call.ret.run_stats.guardrails_passed
    => /\ call.ret.run_stats.recommendation = "SHIP"
            <=> call.ret.report.decision = "SHIP"
       /\ call.ret.report.ccr_summary.significant
          /\ call.ret.report.ccr_summary.effect_abs.neg
          => /\ call.ret.run_stats.recommendation # "SHIP"
             /\ call.ret.report.decision # "SHIP"


====
